---- MODULE Spec2Model ----
(***************************************************************************)
(* Model of the concurrent crawler backend (CollyBackend) of sectool:      *)
(* sectool/service/backend_crawler.go together with the crawl flow store   *)
(* (package store, CrawlFlowStore).                                        *)
(*                                                                         *)
(* The collector library is modelled by its dispatch contract: Visit       *)
(* checks depth, scope and the visited set and spawns one goroutine per    *)
(* accepted URL (counted by the wait group); that goroutine runs the       *)
(* OnRequest callback, the round trip through the capturing transport,     *)
(* then either OnError or OnResponse followed by the OnHTML callbacks,     *)
(* and finally leaves the wait group.  Request.Visit and Request.Post      *)
(* hand the parent's Context on to the child request.                      *)
(***************************************************************************)
EXTENDS Integers, Sequences, FiniteSets, TLC

(***************************************************************************)
(* Bounds of the model.                                                    *)
(***************************************************************************)
MaxCreateCalls == 3
MaxAddSeedsCalls == 1
MaxOffset == 1
MaxLimit == 1
MaxBodyLen == 4
MaxBodyBytes == 3

(***************************************************************************)
(* Program constants.                                                      *)
(***************************************************************************)
crawlStateRunning == "running"
crawlStateStopped == "stopped"
crawlStateCompleted == "completed"

\* config.CrawlerConfig.MaxConcurrentSessions (default configuration)
MaxConcurrentSessions == 2

\* config.CrawlerConfig.DefaultMaxRequests and DefaultMaxDepth as the model's
\* configuration file sets them.  CreateSession reads neither.
DefaultMaxRequests == 2
DefaultMaxDepth == 2

(***************************************************************************)
(* The web the crawler runs against: three pages on host h.                *)
(*   /a  200 text/html  links to /b and /c                                 *)
(*   /b  201 text/html  links to /a and /c, holds one form posting to /b   *)
(*   /c  200 image/png  (a content type the response filter rejects)       *)
(* and three resources no page links to:                                   *)
(*   /d  200 text/css                                                      *)
(*   /e  200 application/json                                              *)
(*   /f  200 without a Content-Type header                                 *)
(* Four more hosts: the page https://example.com/ links to the front pages *)
(* of a.example.com, x.other.com and notexample.com; that of              *)
(* a.example.com links back to it and to x.other.com and holds a form      *)
(* posting to x.other.com.                                                 *)
(* Three more pages on host h: /k holds one form posting to /logout, and   *)
(* /m links to /b and /e.                                                  *)
(* The answer to a POST (a form submission) carries no links and no forms. *)
(***************************************************************************)
UA == "https://h/a"
UB == "https://h/b"
UC == "https://h/c"
UD == "https://h/d"
UE == "https://h/e"
UF == "https://h/f"
UG == "https://example.com/"
UH == "https://a.example.com/"
UI == "https://x.other.com/"
UJ == "https://notexample.com/"
UK == "https://h/k"
UL == "https://h/logout"
UM == "https://h/m"
URLs == {UA, UB, UC, UD, UE, UF, UG, UH, UI, UJ, UK, UL, UM}

\* url.Hostname() of each URL.
Host(u) ==
    CASE u = UG -> "example.com"
      [] u = UH -> "a.example.com"
      [] u = UI -> "x.other.com"
      [] u = UJ -> "notexample.com"
      [] OTHER  -> "h"

\* The characters of a URL string (url.String()) and of a domain name: what
\* a compiled URL filter is matched against and what it is built from.
URLChars(u) ==
    CASE u = UA ->
           <<"h", "t", "t", "p", "s", ":", "/", "/", "h", "/", "a">>
      [] u = UB ->
           <<"h", "t", "t", "p", "s", ":", "/", "/", "h", "/", "b">>
      [] u = UC ->
           <<"h", "t", "t", "p", "s", ":", "/", "/", "h", "/", "c">>
      [] u = UD ->
           <<"h", "t", "t", "p", "s", ":", "/", "/", "h", "/", "d">>
      [] u = UE ->
           <<"h", "t", "t", "p", "s", ":", "/", "/", "h", "/", "e">>
      [] u = UF ->
           <<"h", "t", "t", "p", "s", ":", "/", "/", "h", "/", "f">>
      [] u = UK ->
           <<"h", "t", "t", "p", "s", ":", "/", "/", "h", "/", "k">>
      [] u = UM ->
           <<"h", "t", "t", "p", "s", ":", "/", "/", "h", "/", "m">>
      [] u = UL ->
           <<"h", "t", "t", "p", "s", ":", "/", "/", "h", "/", "l", "o", "g", "o", "u",
             "t">>
      [] u = UG ->
           <<"h", "t", "t", "p", "s", ":", "/", "/", "e", "x", "a", "m",
           "p", "l", "e", ".", "c", "o", "m", "/">>
      [] u = UH ->
           <<"h", "t", "t", "p", "s", ":", "/", "/", "a", ".", "e", "x",
           "a", "m", "p", "l", "e", ".", "c", "o", "m", "/">>
      [] u = UI ->
           <<"h", "t", "t", "p", "s", ":", "/", "/", "x", ".", "o", "t",
           "h", "e", "r", ".", "c", "o", "m", "/">>
      [] u = UJ ->
           <<"h", "t", "t", "p", "s", ":", "/", "/", "n", "o", "t", "e",
           "x", "a", "m", "p", "l", "e", ".", "c", "o", "m", "/">>

DomainChars(d) ==
    CASE d = "example.com" -> <<"e", "x", "a", "m", "p", "l", "e", ".", "c", "o", "m">>
      [] d = "h" -> <<"h">>

\* CrawlerDefaults: the glob patterns of DefaultDisallowedPaths.
DefaultDisallowedPaths == {"*logout*", "*signout*", "*sign-out*", "*delete*", "*remove*"}

\* The AllowedPaths and DisallowedPaths values callers pass in the model.
AllowedPathSets == {{}, {"/a", "/k"}, {"/*b", "/?"}, {"x"}}

DisallowedPathSets == {{}, {"/l*t"}, {"?/c", "/b"}}

\* The characters of each glob pattern.
GlobChars(p) ==
    CASE p = "*logout*" -> <<"*", "l", "o", "g", "o", "u", "t", "*">>
      [] p = "*signout*" -> <<"*", "s", "i", "g", "n", "o", "u", "t", "*">>
      [] p = "*sign-out*" -> <<"*", "s", "i", "g", "n", "-", "o", "u", "t", "*">>
      [] p = "*delete*" -> <<"*", "d", "e", "l", "e", "t", "e", "*">>
      [] p = "*remove*" -> <<"*", "r", "e", "m", "o", "v", "e", "*">>
      [] p = "/a" -> <<"/", "a">>
      [] p = "/k" -> <<"/", "k">>
      [] p = "/*b" -> <<"/", "*", "b">>
      [] p = "/?" -> <<"/", "?">>
      [] p = "x" -> <<"x">>
      [] p = "/l*t" -> <<"/", "l", "*", "t">>
      [] p = "?/c" -> <<"?", "/", "c">>
      [] p = "/b" -> <<"/", "b">>

\* url.URL.Path of a URL of the model (none has a query): the characters from
\* the first "/" after the scheme on.
URLPath(u) ==
    LET str == URLChars(u)
        i == CHOOSE i \in 9 .. Len(str) :
                 str[i] = "/" /\ \A j \in 9 .. i - 1 : str[j] # "/"
    IN SubSeq(str, i, Len(str))

(***************************************************************************)
(* Regexp.MatchString for a regular expression globsToRegexes compiled: the *)
(* expression matches a string when it matches some substring of it.       *)
(***************************************************************************)
RECURSIVE matchesPrefix(_, _)
matchesPrefix(re, str) ==
    IF re = <<>> THEN TRUE
    ELSE IF Head(re) = "*"
    THEN \E k \in 0 .. Len(str) : matchesPrefix(Tail(re), SubSeq(str, k + 1, Len(str)))
    ELSE /\ str # <<>>
         /\ Head(re) = "?" \/ Head(re) = Head(str)
         /\ matchesPrefix(Tail(re), Tail(str))

matchesSubstring(re, str) ==
    \E i \in 1 .. Len(str) + 1 : matchesPrefix(re, SubSeq(str, i, Len(str)))

\* The patterns of the model and the strings they are matched against; the
\* matches are computed once.
RegexPatterns ==
    DefaultDisallowedPaths \cup UNION AllowedPathSets \cup UNION DisallowedPathSets

MatchedStrings == {URLChars(u) : u \in URLs} \cup {URLPath(u) : u \in URLs}

MatchStringTable ==
    [p \in RegexPatterns |->
        {str \in MatchedStrings : matchesSubstring(GlobChars(p), str)}]

MatchString(re, str) == str \in MatchStringTable[re]

PageContentType(u) ==
    CASE u = UC -> "image/png"
      [] u = UD -> "text/css"
      [] u = UE -> "application/json"
      [] u = UF -> ""
      [] OTHER  -> "text/html"

PageStatus(u) == IF u = UB THEN 201 ELSE 200

PageLinks(u, method) ==
    CASE method = "GET" /\ u = UA -> <<UB, UC>>
      [] method = "GET" /\ u = UB -> <<UA, UC>>
      [] method = "GET" /\ u = UG -> <<UH, UI, UJ>>
      [] method = "GET" /\ u = UH -> <<UG, UI>>
      [] method = "GET" /\ u = UM -> <<UB, UE>>
      [] OTHER  -> <<>>

PageForms(u, method) ==
    CASE method = "GET" /\ u = UB -> <<UB>>
      [] method = "GET" /\ u = UH -> <<UI>>
      [] method = "GET" /\ u = UK -> <<UL>>
      [] OTHER -> <<>>

\* Seed strings a caller may pass, and what parseURLWithDefaultHTTPS makes of
\* them: a string without scheme gets https://.
SeedStrings == {"h/a", "https://h/a", "https://h/b", "https://h/c"}

parseURLWithDefaultHTTPS(str) == IF str = "h/a" THEN UA ELSE str

Labels == {"", "L"}

SessionIDs == 1 .. MaxCreateCalls
AddSeedsCalls == 1 .. MaxAddSeedsCalls

NoErr == ""

VARIABLES
    closed,       \* CollyBackend.closed
    sessions,     \* CollyBackend.sessions: the registered session IDs
    byLabel,      \* CollyBackend.byLabel: label -> session ID
    flowStore,    \* store.CrawlFlowStore.byID: flow ID -> session ID
    sess,         \* session ID -> the crawlSession's fields
    cs,           \* CreateSession calls: position, options, result
    worker,       \* the background worker of each session
    reqs,         \* the collector's request goroutines (the wait group)
    ctxs,         \* colly Context objects: ctx ID -> capture_id, parent_url
    addSeeds,     \* AddSeeds calls: position, session, seeds left
    stopPc,       \* StopSession calls between setting the state and cancelling
    closePc,      \* Close between marking closed and cancelling the sessions
    lf,           \* record of the ListFlows calls (history)
    captured,     \* the latest captureResponse call: limit, response, result
    config,       \* CollyBackend.config: the CrawlerConfig of NewCollyBackend
    storeCall     \* the latest direct call of a CrawlFlowStore method (history)

vars == <<closed, sessions, byLabel, flowStore, sess, cs, worker, reqs, ctxs,
          addSeeds, stopPc, closePc, lf, captured, config, storeCall>>

(***************************************************************************)
(* Maps (Go map[string]T) are functions; the empty map has the empty       *)
(* domain.                                                                 *)
(***************************************************************************)
EmptyMap == [k \in {} |-> 0]

MapPut(m, k, v) == (k :> v) @@ m

MapDelete(m, k) == [x \in (DOMAIN m) \ {k} |-> m[x]]

Range(f) == {f[x] : x \in DOMAIN f}

SeqToSet(q) == {q[i] : i \in 1 .. Len(q)}

(***************************************************************************)
(* Proxy history the seed resolver can draw on: one recorded request,      *)
(* GET /b on host h with a Cookie header.                                  *)
(***************************************************************************)
ProxyFlowIDs == {"p1", "p2"}

ProxyRequestURL(fid) == IF fid = "p1" THEN UB ELSE UC

ProxyRequestHeaders(fid) ==
    IF fid = "p1" THEN <<<<"Host", "h">>, <<"Cookie", "sid=1">>>>
    ELSE <<<<"Host", "h">>, <<"Cookie", "sid=2">>, <<"Authorization", "t">>>>

InvalidSeedStrings == {":bad"}

ToLower(str) == IF str = "Host" THEN "host"
                ELSE IF str = "Content-Length" THEN "content-length"
                ELSE IF str = "Cookie" THEN "cookie" ELSE str

RECURSIVE mergeHeaderLines(_, _, _)
mergeHeaderLines(lines, i, seedHeaders) ==
    IF i > Len(lines) THEN seedHeaders
    ELSE LET name == lines[i][1]
             value == lines[i][2]
             nameLower == ToLower(name)
         IN mergeHeaderLines(lines, i + 1,
                IF nameLower # "host" /\ nameLower # "content-length"
                THEN MapPut(seedHeaders, name, value)
                ELSE seedHeaders)

\* resolveSeeds: the allowed domains, the seed URLs in seed order and the seed
\* headers, or the error of the first seed that does not resolve.
RECURSIVE resolveSeedsFrom(_, _, _, _, _)
resolveSeedsFrom(seeds, i, domainSet, seedURLs, seedHeaders) ==
    IF i > Len(seeds)
    THEN [err |-> NoErr, domains |-> domainSet, seedURLs |-> seedURLs,
          seedHeaders |-> seedHeaders]
    ELSE LET seed == seeds[i]
             badURL == seed.URL # "" /\ seed.URL \in InvalidSeedStrings
             badFlow == seed.FlowID # "" /\ seed.FlowID \notin ProxyFlowIDs
             u == parseURLWithDefaultHTTPS(seed.URL)
             d1 == IF seed.URL # "" THEN domainSet \cup {Host(u)} ELSE domainSet
             q1 == IF seed.URL # "" THEN Append(seedURLs, u) ELSE seedURLs
             d2 == IF seed.FlowID # ""
                   THEN d1 \cup {Host(ProxyRequestURL(seed.FlowID))} ELSE d1
             q2 == IF seed.FlowID # ""
                   THEN Append(q1, ProxyRequestURL(seed.FlowID)) ELSE q1
             h2 == IF seed.FlowID # ""
                   THEN mergeHeaderLines(ProxyRequestHeaders(seed.FlowID), 1, seedHeaders)
                   ELSE seedHeaders
         IN IF badURL
            THEN [err |-> "invalid seed URL", domains |-> {}, seedURLs |-> <<>>,
                  seedHeaders |-> EmptyMap]
            ELSE IF badFlow
            THEN [err |-> "seed flow not found", domains |-> {}, seedURLs |-> <<>>,
                  seedHeaders |-> EmptyMap]
            ELSE resolveSeedsFrom(seeds, i + 1, d2, q2, h2)

resolveSeeds(seeds, explicitDomains) ==
    resolveSeedsFrom(seeds, 1, explicitDomains, <<>>, EmptyMap)

(***************************************************************************)
(* Sessions.                                                               *)
(***************************************************************************)
NoOpts == [Label |-> "", Seeds |-> <<>>, ExplicitDomains |-> {}, MaxRequests |-> 0,
           MaxDepth |-> 0, ExtractForms |-> "unset", SubmitForms |-> FALSE,
           IncludeSubdomains |-> FALSE, AllowedPaths |-> {}, DisallowedPaths |-> {}]

\* The crawlSession CreateSession builds (State "none": no session yet).
\* Subdomain filters whenever either side enables them.
useURLFiltersEither(cfg, o) == cfg.IncludeSubdomains \/ o.IncludeSubdomains

\* The test that chooses between c.URLFilters and c.AllowedDomains.
useURLFilters(cfg, o) == cfg.IncludeSubdomains /\ o.IncludeSubdomains

\* globsToRegexes: a compiled pattern is named by its glob, whose characters
\* MatchString interprets ("*" as ".*", "?" as ".", the rest quoted).
globsToRegexes(patterns) == patterns

\* The "Apply defaults from config" step of CreateSession.
applyConfigDefaults(cfg, o) ==
    IF o.DisallowedPaths = {}
    THEN [o EXCEPT !.DisallowedPaths = cfg.DefaultDisallowedPaths]
    ELSE o

\* URLFilters holds the domains buildDomainFilters compiled a filter for.
\* lastActivity counts the assignments of time.Now() to the field.
NewSession(state, opts, r) ==
    [State |-> state, opts |-> opts, allowedDomains |-> r.domains,
     disallowedRegexes |-> globsToRegexes(applyConfigDefaults(config, opts).DisallowedPaths),
     allowedRegexes |-> globsToRegexes(opts.AllowedPaths),
     lastActivity |-> 0,
     URLFilters |-> IF useURLFilters(config, opts) THEN r.domains ELSE {},
     AllowedDomains |-> IF useURLFilters(config, opts) THEN {} ELSE r.domains,
     seedURLs |-> r.seedURLs,
     flowsByID |-> EmptyMap, flowsOrdered |-> <<>>, forms |-> <<>>, errors |-> <<>>,
     urlsSeen |-> {}, urlsQueued |-> 0, requestCount |-> 0, lastReturnedIdx |-> 0,
     seedHeaders |-> r.seedHeaders, parentURLs |-> EmptyMap, captureStore |-> EmptyMap,
     visited |-> {}, cancelled |-> FALSE]

NoSession == NewSession("none", NoOpts, resolveSeeds(<<>>, {}))

\* A CreateSession call: its position, its options, the error it returned and
\* the critical section it returned from.
NoCall == [pc |-> "idle", opts |-> NoOpts, err |-> NoErr, at |-> ""]

NoAddSeeds == [pc |-> "idle", sid |-> 0, seedURLs |-> <<>>, newHeaders |-> EmptyMap,
               i |-> 0, err |-> NoErr]

\* History of the ListFlows calls on a session.  resultMax: the largest
\* original index the latest call returned (-1 when it returned nothing).
\* quiet: "plain" or "filtered" when the latest ListFlows call carried
\* Since="last" (without, or with some filter, Offset or Limit) and no flow was
\* committed since; "no" otherwise.  after: for a latest call with
\* Since="last", the value of quiet when it was made; "no" for any other
\* call.  lastOnce, lastTwice: the indices returned by at least one, at least
\* two Since="last" calls.  other: some observed call was of another kind than
\* Since="last" without filter, Offset and Limit.
NoListOptions ==
    [Since |-> [kind |-> "none", id |-> <<>>], StatusCodes |-> <<>>, Offset |-> 0,
     Limit |-> 0]

\* The latest observed ListFlows call: its options, the number of flows the
\* session held, and the original indices it returned.
NoObs == [called |-> FALSE, opts |-> NoListOptions, n |-> 0, res |-> <<>>]

NoListFlows == [resultMax |-> -1, quiet |-> "no", after |-> "no",
                lastOnce |-> {}, lastTwice |-> {}, other |-> FALSE, obs |-> NoObs]

\* StopSession on a session: the position of a call between its state write
\* and its cancel, and the session's state before and after the latest
\* observed call.
NoStop == [pc |-> "idle", before |-> "", after |-> ""]

\* No CrawlFlowStore method called yet.  owner: for every flow ID ever
\* registered, the session of its latest registration; removed: the flow IDs
\* deleted or removed since their latest registration.
NoStoreCall ==
    [op |-> "none", flowID |-> <<>>, sessionID |-> 0, found |-> FALSE, entry |-> 0,
     count |-> 0, owner |-> EmptyMap, removed |-> {}]

\* No captureResponse call yet.
NoCaptured ==
    [called |-> FALSE, maxBodyBytes |-> 0, resp |-> [hasBody |-> FALSE, Body |-> <<>>],
     body |-> <<>>, bodySize |-> 0, truncated |-> FALSE]

\* config.CrawlerDefaults, as far as CreateSession reads a field that the
\* model varies.
CrawlerDefaults ==
    [IncludeSubdomains |-> TRUE, DefaultDisallowedPaths |-> DefaultDisallowedPaths]

\* NewCollyBackend: the backend after construction, whatever its config.
NewCollyBackend ==
    /\ closed = FALSE
    /\ sessions = {}
    /\ byLabel = EmptyMap
    /\ flowStore = EmptyMap
    /\ sess = [s \in SessionIDs |-> NoSession]
    /\ cs = [c \in SessionIDs |-> NoCall]
    /\ worker = [s \in SessionIDs |-> [pc |-> "none", i |-> 0]]
    /\ reqs = {}
    /\ ctxs = EmptyMap
    /\ addSeeds = [a \in AddSeedsCalls |-> NoAddSeeds]
    /\ stopPc = [s \in SessionIDs |-> NoStop]
    /\ closePc = [pc |-> "idle", sessions |-> {}]
    /\ lf = [s \in SessionIDs |-> NoListFlows]
    /\ captured = NoCaptured
    /\ storeCall = NoStoreCall

\* The backend constructed with the default configuration.
Init ==
    /\ config = CrawlerDefaults
    /\ NewCollyBackend

(***************************************************************************)
(* CreateSession, first critical section (backend lock): closed, the       *)
(* running-session limit, the label.  The lock is released afterwards.     *)
(***************************************************************************)
\* A count that takes every registered session for active.
activeCountAll == Cardinality(sessions)

activeCount == Cardinality({s \in sessions : sess[s].State = crawlStateRunning})

CreateSessionCheck(c, opts) ==
    /\ cs[c].pc = "idle"
    /\ cs' = [cs EXCEPT ![c] =
          IF closed
          THEN [pc |-> "done", opts |-> opts, err |-> "backend is closed", at |-> "entry"]
          ELSE IF activeCount >= MaxConcurrentSessions
          THEN [pc |-> "done", opts |-> opts, err |-> "max concurrent sessions",
                at |-> "entry"]
          ELSE IF opts.Label # "" /\ opts.Label \in DOMAIN byLabel
          THEN [pc |-> "done", opts |-> opts, err |-> "label exists", at |-> "entry"]
          ELSE [pc |-> "checked", opts |-> opts, err |-> NoErr, at |-> ""]]
    /\ UNCHANGED <<storeCall, config, captured, closed, sessions, byLabel, flowStore, sess, worker, reqs, ctxs,
                   addSeeds, stopPc, closePc, lf>>

(***************************************************************************)
(* CreateSession, the rest: resolve the seeds, build the session, and in   *)
(* the second critical section register it (unless the backend was closed  *)
(* meanwhile) and start the background worker.  The session ID is the      *)
(* call's number: ids.Generate with the uniqueness loop of the second      *)
(* critical section yields an ID no registered session has.                *)
(***************************************************************************)
\* A registration that does not look at the closed flag.
closedAtRegisterIgnored(isClosed) == FALSE

\* The closed test of the second critical section.
closedAtRegister(isClosed) == isClosed

\* A registration that stores the session before it tests the closed flag.
registerSessionAlways(S, c, refused) == S \cup {c}

\* b.sessions after the second critical section.
registerSession(S, c, refused) == IF refused THEN S ELSE S \cup {c}

CreateSessionRegister(c) ==
    /\ cs[c].pc = "checked"
    /\ LET opts == cs[c].opts
           r == resolveSeeds(opts.Seeds, opts.ExplicitDomains)
       IN IF r.err # NoErr
          THEN /\ cs' = [cs EXCEPT ![c].pc = "done", ![c].err = r.err, ![c].at = "resolve"]
               /\ UNCHANGED <<sessions, byLabel, sess, worker>>
          ELSE IF r.domains = {}
          THEN /\ cs' = [cs EXCEPT ![c].pc = "done", ![c].err = "no valid domains",
                                     ![c].at = "resolve"]
               /\ UNCHANGED <<sessions, byLabel, sess, worker>>
          ELSE IF closedAtRegister(closed)
          THEN /\ cs' = [cs EXCEPT ![c].pc = "done", ![c].err = "backend is closed",
                                     ![c].at = "register"]
               /\ sessions' = registerSession(sessions, c, TRUE)
               /\ UNCHANGED <<byLabel, sess, worker>>
          ELSE /\ cs' = [cs EXCEPT ![c].pc = "done", ![c].at = "register"]
               /\ sessions' = registerSession(sessions, c, FALSE)
               /\ byLabel' = IF opts.Label # "" THEN MapPut(byLabel, opts.Label, c)
                             ELSE byLabel
               /\ sess' = [sess EXCEPT ![c] = NewSession(crawlStateRunning, opts, r)]
               /\ worker' = [worker EXCEPT ![c] = [pc |-> "seeds", i |-> 1]]
    /\ UNCHANGED <<storeCall, config, captured, closed, flowStore, reqs, ctxs, addSeeds, stopPc, closePc, lf>>

(***************************************************************************)
(* The collector.  A request goroutine is a record; st is its position:    *)
(*   queued       spawned by Visit/Post (in the wait group), OnRequest     *)
(*                not yet run                                              *)
(*   started      OnRequest passed, the round trip has not returned        *)
(*   responded    the transport returned a response                        *)
(*   failed       the transport returned an error                          *)
(*   registering  OnResponse committed the flow, FlowStore.Register is     *)
(*                still to run                                             *)
(*   html         OnResponse is over, OnHTML callbacks are running         *)
(* A goroutine that is over has left the set (wg.Done).                    *)
(*                                                                         *)
(* Identifiers (ids.Generate yields strings no two calls share) are tuples  *)
(* of numbers naming what they were generated for: <<0, i>> the request of *)
(* the i-th seed of CreateSession, <<a, i>> that of the i-th seed of       *)
(* AddSeeds call a, and the parent's tuple extended by k for the request   *)
(* spawned by the k-th element of a page.  A request's capture ID and the  *)
(* ID of the flow committed for it are the request's tuple.                *)
(***************************************************************************)
NoID == <<>>

NewReq(id, s, url, method, depth, ctx) ==
    [id |-> id, sid |-> s, url |-> url, method |-> method, depth |-> depth,
     ctx |-> ctx, st |-> "queued", capHdr |-> NoID, links |-> <<>>, forms |-> <<>>]

(***************************************************************************)
(* buildDomainFilters: the filter of domain d is the regular expression    *)
(*   ^https?://(([^/]+\.)*d)(:[0-9]+)?(/|$)     (d quoted)                 *)
(* matched here against the characters of a URL string.                    *)
(***************************************************************************)
Digits == {"0", "1", "2", "3", "4", "5", "6", "7", "8", "9"}

\* ([^/]+\.)* : nothing, or two or more characters other than "/" of which
\* the last is ".".
matchesSubdomainPrefix(x) ==
    \/ x = <<>>
    \/ /\ Len(x) >= 2
       /\ x[Len(x)] = "."
       /\ \A i \in 1 .. Len(x) : x[i] # "/"

\* (:[0-9]+)?(/|$) from position e of str on.
matchesPortAndEnd(str, e) ==
    \E q \in 0 .. (Len(str) - e + 1) :
        /\ q = 0 \/ (/\ q >= 2
                      /\ str[e] = ":"
                      /\ \A i \in e + 1 .. e + q - 1 : str[i] \in Digits)
        /\ e + q > Len(str) \/ str[e + q] = "/"

\* A filter that lets any characters precede the domain.
domainFilterMatchesSuffix(d, str) ==
    LET dom == DomainChars(d)
    IN \E k \in {7, 8} :
          /\ Len(str) >= k
          /\ SubSeq(str, 1, k) \in {<<"h", "t", "t", "p", ":", "/", "/">>,
                                    <<"h", "t", "t", "p", "s", ":", "/", "/">>}
          /\ \E i \in k + 1 .. Len(str) - Len(dom) + 1 :
                /\ \A j \in k + 1 .. i - 1 : str[j] # "/"
                /\ SubSeq(str, i, i + Len(dom) - 1) = dom
                /\ matchesPortAndEnd(str, i + Len(dom))

domainFilterMatches(d, str) ==
    LET dom == DomainChars(d)
    IN \E k \in {7, 8} :
          /\ Len(str) >= k
          /\ SubSeq(str, 1, k) \in {<<"h", "t", "t", "p", ":", "/", "/">>,
                                    <<"h", "t", "t", "p", "s", ":", "/", "/">>}
          /\ \E i \in k + 1 .. Len(str) - Len(dom) + 1 :
                /\ matchesSubdomainPrefix(SubSeq(str, k + 1, i - 1))
                /\ SubSeq(str, i, i + Len(dom) - 1) = dom
                /\ matchesPortAndEnd(str, i + Len(dom))

\* A test that finds no string disallowed.
matchesAnyRegexNever(str, regexes) == FALSE

matchesAnyRegex(str, regexes) == \E re \in regexes : MatchString(re, str)

\* A request check without the domain tests.
CollyAcceptsAnyDomain(S, url, method, depth) ==
    /\ ~(S.opts.MaxDepth > 0 /\ S.opts.MaxDepth < depth)
    /\ ~(method = "GET" /\ url \in S.visited)
    /\ ~matchesAnyRegex(URLChars(url), S.disallowedRegexes)

\* Collector.requestCheck as CreateSession configures the collector: MaxDepth
\* (set only when opts.MaxDepth > 0), DisallowedURLFilters, URLFilters or
\* AllowedDomains, and the visited store, which is consulted for GET requests.
CollyAccepts(S, url, method, depth) ==
    /\ ~(S.opts.MaxDepth > 0 /\ S.opts.MaxDepth < depth)
    /\ ~(method = "GET" /\ url \in S.visited)
    /\ S.AllowedDomains # {} => Host(url) \in S.AllowedDomains
    /\ S.URLFilters # {} => \E d \in S.URLFilters : domainFilterMatches(d, URLChars(url))
    /\ ~matchesAnyRegex(URLChars(url), S.disallowedRegexes)

\* Visit/Post on session record S: the session record and the request set
\* afterwards.  Collector.Visit passes no Context (a fresh one is made, named
\* by the request), Request.Visit and Request.Post pass the parent's Context.
Visit(S, R, s, url, method, depth, ctx, id) ==
    IF CollyAccepts(S, url, method, depth)
    THEN [S |-> IF method = "GET" THEN [S EXCEPT !.visited = @ \cup {url}] ELSE S,
          R |-> R \cup {NewReq(id, s, url, method, depth, IF ctx = NoID THEN id ELSE ctx)}]
    ELSE [S |-> S, R |-> R]

wgCount(s) == Cardinality({r \in reqs : r.sid = s})

(***************************************************************************)
(* Background worker of CreateSession: visit every seed, Wait, mark the    *)
(* session completed if it is still running.                               *)
(***************************************************************************)
WorkerSeed(s) ==
    /\ worker[s].pc = "seeds"
    /\ worker[s].i <= Len(sess[s].seedURLs)
    /\ LET seedURL == sess[s].seedURLs[worker[s].i]
           S1 == [sess[s] EXCEPT !.urlsSeen = @ \cup {seedURL}]
           v == Visit(S1, reqs, s, seedURL, "GET", 1, NoID, <<0, worker[s].i>>)
       IN /\ sess' = [sess EXCEPT ![s] = v.S]
          /\ reqs' = v.R
    /\ worker' = [worker EXCEPT ![s].i = @ + 1]
    /\ UNCHANGED <<storeCall, config, captured, closed, sessions, byLabel, flowStore, cs, ctxs, addSeeds, stopPc,
                   closePc, lf>>

\* c.Wait() returns once the wait group is empty.
WorkerWait(s) ==
    /\ worker[s].pc = "seeds"
    /\ worker[s].i > Len(sess[s].seedURLs)
    /\ wgCount(s) = 0
    /\ worker' = [worker EXCEPT ![s].pc = "mark"]
    /\ UNCHANGED <<storeCall, config, captured, closed, sessions, byLabel, flowStore, sess, cs, reqs, ctxs, addSeeds,
                   stopPc, closePc, lf>>

\* The worker's final write without its state test.
markCompletedAlways(state) == crawlStateCompleted

\* A worker that ends without its final write.
markCompletedNever(state) == state

markCompleted(state) ==
    IF state = crawlStateRunning THEN crawlStateCompleted ELSE state

WorkerMark(s) ==
    /\ worker[s].pc = "mark"
    /\ sess' = [sess EXCEPT ![s].State = markCompleted(@)]
    /\ worker' = [worker EXCEPT ![s].pc = "done"]
    /\ UNCHANGED <<storeCall, config, captured, closed, sessions, byLabel, flowStore, cs, reqs, ctxs, addSeeds,
                   stopPc, closePc, lf>>

ReqUpdate(R, r, r2) == (R \ {r}) \cup {r2}

\* The Contexts some request goroutine still refers to (the others are
\* garbage).
LiveCtxs(R, C) == [c \in {r.ctx : r \in R} \cap DOMAIN C |-> C[c]]

\* The request-limit test of OnRequest.
\* The limit test with > in place of >=.
requestLimitReachedLate(S) ==
    S.opts.MaxRequests > 0 /\ S.requestCount > S.opts.MaxRequests

requestLimitReached(S) ==
    S.opts.MaxRequests > 0 /\ S.requestCount >= S.opts.MaxRequests

(***************************************************************************)
(* OnRequest callback: the MaxRequests check and the two increments in one *)
(* critical section, then the capture ID (put into the request's Context   *)
(* and its header) and the parent URL (LoadAndDelete on parentURLs).       *)
(* An aborted request ends its goroutine.                                  *)
(***************************************************************************)
\* A start that queues the request without counting it.
countRequestQueueOnly(S) == [S EXCEPT !.urlsQueued = @ + 1, !.lastActivity = @ + 1]

countRequest(S) ==
    [S EXCEPT !.requestCount = @ + 1, !.urlsQueued = @ + 1, !.lastActivity = @ + 1]

\* An allow-path test that lets every path through.
pathAllowedAlways(S, path) == TRUE

\* The AllowedPaths test of OnRequest on r.URL.Path.
pathAllowed(S, path) ==
    S.allowedRegexes # {} => \E re \in S.allowedRegexes : MatchString(re, path)

OnRequest(r) ==
    /\ r \in reqs
    /\ r.st = "queued"
    /\ LET s == r.sid
           S == sess[s]
           captureID == r.id
           parentURL == IF r.url \in DOMAIN S.parentURLs THEN S.parentURLs[r.url]
                        ELSE "seed"
       IN IF ~pathAllowed(S, URLPath(r.url)) \/ requestLimitReached(S)
          THEN /\ reqs' = reqs \ {r}
               /\ ctxs' = LiveCtxs(reqs', ctxs)
               /\ UNCHANGED sess
          ELSE /\ sess' = [sess EXCEPT ![s] =
                     [countRequest(S) EXCEPT !.parentURLs = MapDelete(@, r.url)]]
               /\ ctxs' = MapPut(ctxs, r.ctx,
                              [capture_id |-> captureID, parent_url |-> parentURL])
               /\ reqs' = ReqUpdate(reqs, r, [r EXCEPT !.st = "started",
                                                      !.capHdr = captureID])
    /\ UNCHANGED <<storeCall, config, captured, closed, sessions, byLabel, flowStore, cs, worker, addSeeds, stopPc,
                   closePc, lf>>

(***************************************************************************)
(* capturingTransport.RoundTrip: the base round trip answers or fails (it  *)
(* fails once the session context is cancelled); either way the captured   *)
(* data is stored under the capture ID the request header carries.         *)
(***************************************************************************)
RoundTrip(r, ok) ==
    /\ r \in reqs
    /\ r.st = "started"
    /\ sess[r.sid].cancelled => ~ok
    /\ sess' = [sess EXCEPT ![r.sid].captureStore =
                    MapPut(@, r.capHdr, [Request |-> <<r.method, r.url>>, Error |-> ~ok])]
    /\ reqs' = ReqUpdate(reqs, r, [r EXCEPT !.st = IF ok THEN "responded" ELSE "failed"])
    /\ UNCHANGED <<storeCall, config, captured, closed, sessions, byLabel, flowStore, cs, worker, ctxs, addSeeds,
                   stopPc, closePc, lf>>

(***************************************************************************)
(* capturingTransport.captureResponse.  A response body is a sequence of   *)
(* bytes (or absent); io.LimitReader hands out at most limit bytes, and    *)
(* the rest of the reader is counted and discarded.                        *)
(***************************************************************************)
Min(a, b) == IF a <= b THEN a ELSE b

\* A limited read that reports truncation as soon as the limit is filled.
readBodyLimitedAtLimit(r, limit) ==
    LET n == Min(Len(r), limit)
        remaining == Len(r) - n
    IN [body |-> SubSeq(r, 1, n), bodySize |-> n + remaining, truncated |-> n >= limit]

readBodyLimited(r, limit) ==
    LET n == Min(Len(r), limit)
        remaining == Len(r) - n
    IN [body |-> SubSeq(r, 1, n), bodySize |-> n + remaining, truncated |-> remaining > 0]

captureResponse(resp, maxBodyBytes) ==
    IF ~resp.hasBody THEN [body |-> <<>>, bodySize |-> 0, truncated |-> FALSE]
    ELSE IF maxBodyBytes <= 0
    THEN [body |-> resp.Body, bodySize |-> Len(resp.Body), truncated |-> FALSE]
    ELSE readBodyLimited(resp.Body, maxBodyBytes)

RECURSIVE BytesUpTo(_)
BytesUpTo(n) ==
    IF n = 0 THEN {<<>>}
    ELSE BytesUpTo(n - 1) \cup {Append(b, x) : b \in BytesUpTo(n - 1), x \in {0, 1}}

\* The responses a round trip may return: without a body, or with a body of
\* up to MaxBodyLen bytes.
Responses ==
    {[hasBody |-> FALSE, Body |-> <<>>]}
        \cup {[hasBody |-> TRUE, Body |-> b] : b \in BytesUpTo(MaxBodyLen)}

\* A captureResponse call of a transport configured with maxBodyBytes.
CaptureResponse(resp, maxBodyBytes) ==
    /\ captured' = LET res == captureResponse(resp, maxBodyBytes)
                   IN [called |-> TRUE, maxBodyBytes |-> maxBodyBytes, resp |-> resp,
                       body |-> res.body, bodySize |-> res.bodySize,
                       truncated |-> res.truncated]
    /\ UNCHANGED <<storeCall, config, closed, sessions, byLabel, flowStore, sess, cs, worker, reqs, ctxs,
                   addSeeds, stopPc, closePc, lf>>

\* Content types met in the model and the entries of allowedContentTypes that
\* are a prefix of each (strings.HasPrefix on the lower-cased type).
allowedContentTypes ==
    {"text/", "application/json", "application/xml", "application/javascript",
     "application/x-javascript"}

AllowedPrefixesOf(ct) ==
    CASE ct \in {"text/html", "text/css", "text/plain"} -> {"text/"}
      [] ct = "application/json" -> {"application/json"}
      [] OTHER -> {}

\* A filter that compares the whole type with the list entries.
isAllowedContentTypeExact(ct) ==
    \/ ct = ""
    \/ ct \in allowedContentTypes

isAllowedContentType(ct) ==
    \/ ct = ""
    \/ AllowedPrefixesOf(ct) \cap allowedContentTypes # {}

\* Collector.handleOnHTML runs the OnHTML callbacks on responses whose
\* Content-Type contains "html".
IsHTML(ct) == ct = "text/html"

extractForms(opts) ==
    IF opts.ExtractForms = "unset" THEN TRUE ELSE opts.ExtractForms = "true"

\* The request set once OnResponse (and Register) are over for r: r goes on to
\* its OnHTML callbacks, a[href] elements first, or ends.
AfterResponse(R, r) ==
    LET ct == PageContentType(r.url)
        links == IF IsHTML(ct) THEN PageLinks(r.url, r.method) ELSE <<>>
        forms == IF IsHTML(ct) /\ extractForms(sess[r.sid].opts)
                 THEN PageForms(r.url, r.method) ELSE <<>>
    IN IF links = <<>> /\ forms = <<>>
       THEN R \ {r}
       ELSE ReqUpdate(R, r, [r EXCEPT !.st = "html", !.links = links, !.forms = forms])

(***************************************************************************)
(* OnResponse callback up to the end of its critical section: a filtered   *)
(* content type, a missing capture ID or a missing captured entry only     *)
(* decrement urlsQueued; otherwise the flow is built from the captured     *)
(* data and committed to flowsByID and flowsOrdered.  The capture ID is    *)
(* read from the request's Context.                                        *)
(***************************************************************************)
\* A drop path that forgets the decrement.
dropResponseNoDecrement(S) == S

\* The critical section of the three paths of OnResponse that store no flow.
dropResponse(S) == [S EXCEPT !.urlsQueued = @ - 1]

\* captureStore.LoadAndDelete and the critical section that commits the flow.
commitFlow(S, captureID, flow) ==
    [S EXCEPT !.captureStore = MapDelete(@, captureID),
              !.flowsByID = MapPut(@, flow.ID, flow),
              !.flowsOrdered = Append(@, flow),
              !.urlsQueued = @ - 1,
              !.lastActivity = @ + 1]

OnResponse(r) ==
    /\ r \in reqs
    /\ r.st = "responded"
    /\ LET s == r.sid
           S == sess[s]
           ct == PageContentType(r.url)
           captureID == ctxs[r.ctx].capture_id
           flowID == r.id
       IN IF (ct # "" /\ ~isAllowedContentType(ct))
             \/ captureID = NoID
             \/ captureID \notin DOMAIN S.captureStore
          THEN /\ sess' = [sess EXCEPT ![s] = dropResponse(S)]
               /\ reqs' = AfterResponse(reqs, r)
               /\ UNCHANGED lf
          ELSE LET data == S.captureStore[captureID]
                   flow == [ID |-> flowID, SessionID |-> s, URL |-> r.url,
                            Method |-> r.method,
                            FoundOn |-> ctxs[r.ctx].parent_url, Depth |-> r.depth,
                            StatusCode |-> PageStatus(r.url), ContentType |-> ct,
                            Request |-> data.Request]
               IN /\ sess' = [sess EXCEPT ![s] = commitFlow(S, captureID, flow)]
                  /\ reqs' = ReqUpdate(reqs, r, [r EXCEPT !.st = "registering"])
                  /\ lf' = [lf EXCEPT ![s].quiet = "no"]
    /\ ctxs' = LiveCtxs(reqs', ctxs)
    /\ UNCHANGED <<storeCall, config, captured, closed, sessions, byLabel, flowStore, cs, worker, addSeeds,
                   stopPc, closePc>>

(***************************************************************************)
(* store.CrawlFlowStore: every method runs under the store's lock, so a    *)
(* method is one step on byID.                                             *)
(***************************************************************************)
\* A Register that keeps the entry of a flow ID it already holds.
CrawlFlowStoreRegisterKeep(byID, flowID, sessionID) ==
    IF flowID \in DOMAIN byID THEN byID ELSE MapPut(byID, flowID, sessionID)

CrawlFlowStoreRegister(byID, flowID, sessionID) == MapPut(byID, flowID, sessionID)

CrawlFlowStoreLookup(byID, flowID) ==
    IF flowID \in DOMAIN byID THEN [ok |-> TRUE, SessionID |-> byID[flowID]]
    ELSE [ok |-> FALSE, SessionID |-> 0]

CrawlFlowStoreExists(byID, flowID) == flowID \in DOMAIN byID

CrawlFlowStoreDelete(byID, flowID) == MapDelete(byID, flowID)

\* The loop of RemoveSession over the entries still to be looked at.
RECURSIVE removeSessionLoop(_, _, _)
removeSessionLoop(byID, ids, sessionID) ==
    IF ids = {} THEN byID
    ELSE LET id == CHOOSE x \in ids : TRUE
         IN removeSessionLoop(IF byID[id] = sessionID THEN MapDelete(byID, id) ELSE byID,
                              ids \ {id}, sessionID)

\* A RemoveSession that stops at the first entry of the session.
CrawlFlowStoreRemoveSessionFirst(byID, sessionID) ==
    LET hits == {id \in DOMAIN byID : byID[id] = sessionID}
    IN IF hits = {} THEN byID ELSE MapDelete(byID, CHOOSE id \in hits : TRUE)

CrawlFlowStoreRemoveSession(byID, sessionID) ==
    removeSessionLoop(byID, DOMAIN byID, sessionID)

CrawlFlowStoreCount(byID) == Cardinality(DOMAIN byID)

CrawlFlowStoreClear(byID) == EmptyMap

\* Direct calls of the store's methods, by any number of goroutines.
StoreUnchanged ==
    UNCHANGED <<closed, sessions, byLabel, sess, cs, worker, reqs, ctxs, addSeeds,
                stopPc, closePc, lf, captured, config>>

StoreRegister(flowID, sessionID) ==
    /\ flowStore' = CrawlFlowStoreRegister(flowStore, flowID, sessionID)
    /\ storeCall' = [storeCall EXCEPT !.op = "Register", !.flowID = flowID,
                                      !.sessionID = sessionID,
                                      !.owner = MapPut(@, flowID, sessionID),
                                      !.removed = @ \ {flowID}]
    /\ StoreUnchanged

StoreLookup(flowID) ==
    /\ storeCall' = [storeCall EXCEPT !.op = "Lookup", !.flowID = flowID,
                          !.found = CrawlFlowStoreLookup(flowStore, flowID).ok,
                          !.entry = CrawlFlowStoreLookup(flowStore, flowID).SessionID]
    /\ UNCHANGED flowStore
    /\ StoreUnchanged

StoreExists(flowID) ==
    /\ storeCall' = [storeCall EXCEPT !.op = "Exists", !.flowID = flowID,
                          !.found = CrawlFlowStoreExists(flowStore, flowID)]
    /\ UNCHANGED flowStore
    /\ StoreUnchanged

StoreDelete(flowID) ==
    /\ flowStore' = CrawlFlowStoreDelete(flowStore, flowID)
    /\ storeCall' = [storeCall EXCEPT !.op = "Delete", !.flowID = flowID,
                                      !.removed = @ \cup {flowID}]
    /\ StoreUnchanged

StoreRemoveSession(sessionID) ==
    /\ flowStore' = CrawlFlowStoreRemoveSession(flowStore, sessionID)
    /\ storeCall' = [storeCall EXCEPT !.op = "RemoveSession", !.sessionID = sessionID,
                          !.removed = @ \cup {f \in DOMAIN storeCall.owner :
                                                  storeCall.owner[f] = sessionID}]
    /\ StoreUnchanged

StoreCount ==
    /\ storeCall' = [storeCall EXCEPT !.op = "Count",
                                      !.count = CrawlFlowStoreCount(flowStore)]
    /\ UNCHANGED flowStore
    /\ StoreUnchanged

StoreClear ==
    /\ flowStore' = CrawlFlowStoreClear(flowStore)
    /\ storeCall' = [storeCall EXCEPT !.op = "Clear",
                                      !.removed = DOMAIN storeCall.owner]
    /\ StoreUnchanged

\* OnResponse, after its critical section: flowStore.Register(flowID, session).
Register(r) ==
    /\ r \in reqs
    /\ r.st = "registering"
    /\ flowStore' = CrawlFlowStoreRegister(flowStore, r.id, r.sid)
    /\ reqs' = AfterResponse(reqs, r)
    /\ ctxs' = LiveCtxs(reqs', ctxs)
    /\ UNCHANGED <<storeCall, config, captured, closed, sessions, byLabel, sess, cs, worker, addSeeds, stopPc,
                   closePc, lf>>

(***************************************************************************)
(* OnError callback: drop the captured entry, append the error, decrement  *)
(* urlsQueued.                                                             *)
(***************************************************************************)
\* An error path that leaves urlsQueued as it is.
recordErrorNoDecrement(S, captureID, crawlErr) ==
    [S EXCEPT !.captureStore = MapDelete(@, captureID),
              !.errors = Append(@, crawlErr),
              !.lastActivity = @ + 1]

recordError(S, captureID, crawlErr) ==
    [S EXCEPT !.captureStore = MapDelete(@, captureID),
              !.errors = Append(@, crawlErr),
              !.urlsQueued = @ - 1,
              !.lastActivity = @ + 1]

OnError(r) ==
    /\ r \in reqs
    /\ r.st = "failed"
    /\ LET s == r.sid
           captureID == ctxs[r.ctx].capture_id
           crawlErr == [URL |-> r.url, Error |-> "transport", Status |-> 0]
       IN sess' = [sess EXCEPT ![s] = recordError(sess[s], captureID, crawlErr)]
    /\ reqs' = reqs \ {r}
    /\ ctxs' = LiveCtxs(reqs', ctxs)
    /\ UNCHANGED <<storeCall, config, captured, closed, sessions, byLabel, flowStore, cs, worker, addSeeds,
                   stopPc, closePc, lf>>

\* The request set once an OnHTML callback of r is over.
AfterCallback(R, r, r2) ==
    IF r2.links = <<>> /\ r2.forms = <<>> THEN R \ {r} ELSE ReqUpdate(R, r, r2)

(***************************************************************************)
(* OnHTML a[href] callback for the next link of the page: test-and-set on  *)
(* urlsSeen; the first discoverer stores the parent URL and visits.        *)
(***************************************************************************)
\* A callback that takes every link for unseen.
linkSeenNever(S, link) == FALSE

\* seen := sess.urlsSeen[link], read in the critical section that sets it.
linkSeen(S, link) == link \in S.urlsSeen

OnHTMLLink(r) ==
    /\ r \in reqs
    /\ r.st = "html"
    /\ r.links # <<>>
    /\ LET s == r.sid
           S == sess[s]
           link == Head(r.links)
           seen == linkSeen(S, link)
           S1 == [S EXCEPT !.urlsSeen = @ \cup {link}]
           S2 == [S1 EXCEPT !.parentURLs = MapPut(@, link, r.url)]
           r2 == [r EXCEPT !.links = Tail(@)]
           k == Len(PageLinks(r.url, r.method)) - Len(r.links) + 1
           v == Visit(S2, AfterCallback(reqs, r, r2), s, link, "GET", r.depth + 1,
                      r.ctx, Append(r.id, k))
       IN IF seen
          THEN /\ reqs' = AfterCallback(reqs, r, r2)
               /\ UNCHANGED sess
          ELSE /\ sess' = [sess EXCEPT ![s] = v.S]
               /\ reqs' = v.R
    /\ ctxs' = LiveCtxs(reqs', ctxs)
    /\ UNCHANGED <<storeCall, config, captured, closed, sessions, byLabel, flowStore, cs, worker, addSeeds,
                   stopPc, closePc, lf>>

(***************************************************************************)
(* OnHTML form callback for the next form of the page: append the form,    *)
(* and post it when SubmitForms is on and its action is not disallowed.    *)
(***************************************************************************)
OnHTMLForm(r) ==
    /\ r \in reqs
    /\ r.st = "html"
    /\ r.links = <<>>
    /\ r.forms # <<>>
    /\ LET s == r.sid
           S == sess[s]
           form == [URL |-> r.url, Action |-> Head(r.forms), Method |-> "POST"]
           S1 == [S EXCEPT !.forms = Append(@, form)]
           r2 == [r EXCEPT !.forms = Tail(@)]
           k == Len(PageLinks(r.url, r.method)) + Len(PageForms(r.url, r.method))
                    - Len(r.forms) + 1
           v == Visit(S1, AfterCallback(reqs, r, r2), s, form.Action, "POST",
                      r.depth + 1, r.ctx, Append(r.id, k))
       IN IF S.opts.SubmitForms /\ ~matchesAnyRegex(URLChars(form.Action), S.disallowedRegexes)
          THEN /\ sess' = [sess EXCEPT ![s] = v.S]
               /\ reqs' = v.R
          ELSE /\ sess' = [sess EXCEPT ![s] = S1]
               /\ reqs' = AfterCallback(reqs, r, r2)
    /\ ctxs' = LiveCtxs(reqs', ctxs)
    /\ UNCHANGED <<storeCall, config, captured, closed, sessions, byLabel, flowStore, cs, worker, addSeeds,
                   stopPc, closePc, lf>>

(***************************************************************************)
(* resolveSession: an identifier is tried as a session ID, then as a       *)
(* label; 0 stands for ErrNotFound.  An identifier of the model is a       *)
(* record holding either an ID or a label.                                 *)
(***************************************************************************)
resolveSession(ident) ==
    IF ident.id \in sessions THEN ident.id
    ELSE IF ident.label \in DOMAIN byLabel /\ byLabel[ident.label] \in sessions
    THEN byLabel[ident.label]
    ELSE 0

Identifiers ==
    {[id |-> s, label |-> "-"] : s \in SessionIDs}
        \cup {[id |-> 0, label |-> l] : l \in Labels \ {""}}

(***************************************************************************)
(* StopSession: under the session lock a running session becomes stopped;  *)
(* the context is cancelled after the lock is released.  On a session that *)
(* is not running, or an unknown identifier, nothing changes.              *)
(***************************************************************************)
\* A state test that lets every session be stopped.
mayStopAlways(state) == TRUE

\* The state test of StopSession.
mayStop(state) == state = crawlStateRunning

StopSessionCall(ident, observe) ==
    /\ LET s == resolveSession(ident)
           stops == s # 0 /\ mayStop(sess[s].State)
           after == IF stops THEN crawlStateStopped ELSE sess[s].State
       IN /\ IF stops
             THEN sess' = [sess EXCEPT ![s].State = crawlStateStopped]
             ELSE UNCHANGED sess
          /\ IF s = 0 THEN UNCHANGED stopPc
             ELSE stopPc' = [stopPc EXCEPT ![s] =
                      [pc |-> IF stops THEN "cancel" ELSE stopPc[s].pc,
                       before |-> IF observe THEN sess[s].State ELSE stopPc[s].before,
                       after |-> IF observe THEN after ELSE stopPc[s].after]]
    /\ UNCHANGED <<storeCall, config, captured, closed, sessions, byLabel, flowStore, cs, worker, reqs, ctxs,
                   addSeeds, closePc, lf>>

StopSession(ident) == StopSessionCall(ident, FALSE)

StopSessionCancel(s) ==
    /\ stopPc[s].pc = "cancel"
    /\ sess' = [sess EXCEPT ![s].cancelled = TRUE]
    /\ stopPc' = [stopPc EXCEPT ![s].pc = "idle"]
    /\ UNCHANGED <<storeCall, config, captured, closed, sessions, byLabel, flowStore, cs, worker, reqs, ctxs,
                   addSeeds, closePc, lf>>

(***************************************************************************)
(* Close: under the backend lock mark the backend closed and collect the   *)
(* sessions; cancel each of them after the lock is released.  A call on a  *)
(* closed backend returns at once.                                         *)
(***************************************************************************)
\* A collection that takes the running sessions only.
collectSessionsRunning(S) == {s \in S : sess[s].State = crawlStateRunning}

\* The sessions Close collects under the backend lock.
collectSessions(S) == S

Close ==
    /\ IF closed
       THEN UNCHANGED <<closed, closePc>>
       ELSE /\ closed' = TRUE
            /\ closePc' = [pc |-> "cancel", sessions |-> collectSessions(sessions)]
    /\ UNCHANGED <<storeCall, config, captured, sessions, byLabel, flowStore, sess, cs, worker, reqs, ctxs,
                   addSeeds, stopPc, lf>>

CloseCancel ==
    /\ closePc.pc = "cancel"
    /\ sess' = [s \in SessionIDs |->
                   IF s \in closePc.sessions THEN [sess[s] EXCEPT !.cancelled = TRUE]
                   ELSE sess[s]]
    /\ closePc' = [pc |-> "done", sessions |-> {}]
    /\ UNCHANGED <<storeCall, config, captured, closed, sessions, byLabel, flowStore, cs, worker, reqs, ctxs,
                   addSeeds, stopPc, lf>>

(***************************************************************************)
(* AddSeeds.  Begin: resolve the session, read its state under the read    *)
(* lock, resolve the seeds.  Merge: add the header names the session does  *)
(* not hold yet.  Visit: per seed URL a test-and-set on urlsSeen and, when *)
(* the URL was unseen, collector.Visit.                                    *)
(***************************************************************************)
\* A call that has returned nil: its locals are gone.
AddSeedsReturned(s) == [NoAddSeeds EXCEPT !.pc = "done", !.sid = s]

\* A state test that lets AddSeeds through on every session.
notRunningNever(state) == FALSE

\* The state test of AddSeeds.
notRunning(state) == state # crawlStateRunning

AddSeedsBegin(a, ident, seeds) ==
    /\ addSeeds[a].pc = "idle"
    /\ \A b \in AddSeedsCalls : b < a => addSeeds[b].pc # "idle"
    /\ LET s == resolveSession(ident)
           r == resolveSeeds(seeds, {})
       IN addSeeds' = [addSeeds EXCEPT ![a] =
              IF s = 0
              THEN [NoAddSeeds EXCEPT !.pc = "done", !.err = "session not found"]
              ELSE IF notRunning(sess[s].State)
              THEN [NoAddSeeds EXCEPT !.pc = "done", !.sid = s,
                                      !.err = "session is not running"]
              ELSE IF r.err # NoErr
              THEN [NoAddSeeds EXCEPT !.pc = "done", !.sid = s, !.err = r.err]
              ELSE IF DOMAIN r.seedHeaders = {} /\ r.seedURLs = <<>>
              THEN AddSeedsReturned(s)
              ELSE [pc |-> IF DOMAIN r.seedHeaders # {} THEN "merge" ELSE "visit",
                    sid |-> s, seedURLs |-> r.seedURLs, newHeaders |-> r.seedHeaders,
                    i |-> 1, err |-> NoErr]]
    /\ UNCHANGED <<storeCall, config, captured, closed, sessions, byLabel, flowStore, sess, cs, worker, reqs, ctxs,
                   stopPc, closePc, lf>>

\* A merge in which the new value wins.
mergeSeedHeadersOverwrite(old, new) ==
    [k \in (DOMAIN old) \cup (DOMAIN new) |-> IF k \in DOMAIN new THEN new[k] ELSE old[k]]

mergeSeedHeaders(old, new) ==
    [k \in (DOMAIN old) \cup (DOMAIN new) |-> IF k \in DOMAIN old THEN old[k] ELSE new[k]]

AddSeedsMerge(a) ==
    /\ addSeeds[a].pc = "merge"
    /\ sess' = [sess EXCEPT ![addSeeds[a].sid].seedHeaders =
                    mergeSeedHeaders(@, addSeeds[a].newHeaders)]
    /\ addSeeds' = [addSeeds EXCEPT ![a] =
                       IF addSeeds[a].seedURLs # <<>>
                       THEN [@ EXCEPT !.pc = "visit", !.newHeaders = EmptyMap]
                       ELSE AddSeedsReturned(addSeeds[a].sid)]
    /\ UNCHANGED <<storeCall, config, captured, closed, sessions, byLabel, flowStore, cs, worker, reqs, ctxs,
                   stopPc, closePc, lf>>

AddSeedsVisit(a) ==
    /\ addSeeds[a].pc = "visit"
    /\ LET s == addSeeds[a].sid
           S == sess[s]
           seedURL == addSeeds[a].seedURLs[addSeeds[a].i]
           seen == seedURL \in S.urlsSeen
           S1 == [S EXCEPT !.urlsSeen = @ \cup {seedURL}]
           v == Visit(S1, reqs, s, seedURL, "GET", 1, NoID, <<a, addSeeds[a].i>>)
       IN IF seen
          THEN UNCHANGED <<sess, reqs>>
          ELSE /\ sess' = [sess EXCEPT ![s] = v.S]
               /\ reqs' = v.R
    /\ addSeeds' = [addSeeds EXCEPT ![a] =
                       IF addSeeds[a].i >= Len(addSeeds[a].seedURLs)
                       THEN AddSeedsReturned(addSeeds[a].sid)
                       ELSE [@ EXCEPT !.i = @ + 1]]
    /\ UNCHANGED <<storeCall, config, captured, closed, sessions, byLabel, flowStore, cs, worker, ctxs, stopPc,
                   closePc, lf>>

(***************************************************************************)
(* ListFlows.  Indices are the original 0-based indices into flowsOrdered. *)
(* Of the filters of matchesFlowFilters the status-code filter is          *)
(* exercised; every filter is a test of the single flow.                   *)
(***************************************************************************)
matchesFlowFilters(flow, opts) ==
    Len(opts.StatusCodes) > 0 =>
        \E k \in 1 .. Len(opts.StatusCodes) : flow.StatusCode = opts.StatusCodes[k]

SetMin(X) == CHOOSE x \in X : \A y \in X : x <= y

\* A start index that ignores the cursor.
startIdxOfNoCursor(S, opts) ==
    IF opts.Since.kind \in {"none", "last"} THEN 0
    ELSE LET hits == {i \in 0 .. Len(S.flowsOrdered) - 1 :
                          S.flowsOrdered[i + 1].ID = opts.Since.id}
         IN IF hits = {} THEN 0 ELSE SetMin(hits) + 1

\* A start index at the Since flow itself.
startIdxOfInclusive(S, opts) ==
    IF opts.Since.kind = "none" THEN 0
    ELSE IF opts.Since.kind = "last" THEN S.lastReturnedIdx
    ELSE LET hits == {i \in 0 .. Len(S.flowsOrdered) - 1 :
                          S.flowsOrdered[i + 1].ID = opts.Since.id}
         IN IF hits = {} THEN 0 ELSE SetMin(hits)

\* The start index the Since option selects.
startIdxOf(S, opts) ==
    IF opts.Since.kind = "none" THEN 0
    ELSE IF opts.Since.kind = "last" THEN S.lastReturnedIdx
    ELSE LET hits == {i \in 0 .. Len(S.flowsOrdered) - 1 :
                          S.flowsOrdered[i + 1].ID = opts.Since.id}
         IN IF hits = {} THEN 0 ELSE SetMin(hits) + 1

\* The matching flows from the start index on, as original indices.
filteredFrom(S, opts, startIdx) ==
    LET n == Len(S.flowsOrdered)
        all == [k \in 1 .. (IF n > startIdx THEN n - startIdx ELSE 0) |-> startIdx + k - 1]
        Test(i) == matchesFlowFilters(S.flowsOrdered[i + 1], opts)
    IN SelectSeq(all, Test)

applyOffset(filtered, opts) ==
    IF opts.Offset > 0
    THEN IF opts.Offset >= Len(filtered) THEN <<>>
         ELSE SubSeq(filtered, opts.Offset + 1, Len(filtered))
    ELSE filtered

applyLimit(filtered, opts) ==
    IF opts.Limit > 0 /\ opts.Limit < Len(filtered)
    THEN SubSeq(filtered, 1, opts.Limit)
    ELSE filtered

\* The original indices of the flows a ListFlows call returns.
returnedIdx(S, opts) ==
    applyLimit(applyOffset(filteredFrom(S, opts, startIdxOf(S, opts)), opts), opts)

\* A cursor that only ever moves one flow forward.
advanceCursorByOne(S, res) ==
    IF Len(res) > 0 /\ S.lastReturnedIdx < Len(S.flowsOrdered)
    THEN S.lastReturnedIdx + 1
    ELSE S.lastReturnedIdx

\* A cursor set to the last returned flow without the regress test.
advanceCursorNoTest(S, res) ==
    IF Len(res) > 0 THEN res[Len(res)] + 1 ELSE S.lastReturnedIdx

\* A cursor that no call moves.
advanceCursorKeep(S, res) == S.lastReturnedIdx

\* lastReturnedIdx after a call that returns the indices res.
advanceCursor(S, res) ==
    IF Len(res) > 0
    THEN LET maxIdx == res[Len(res)] + 1
         IN IF maxIdx > S.lastReturnedIdx THEN maxIdx ELSE S.lastReturnedIdx
    ELSE S.lastReturnedIdx

IsPlain(opts) == Len(opts.StatusCodes) = 0 /\ opts.Offset = 0 /\ opts.Limit = 0

ListFlowsCall(ident, opts, observe) ==
    /\ resolveSession(ident) # 0
    /\ LET s == resolveSession(ident)
           S == sess[s]
           res == returnedIdx(S, opts)
           isLast == opts.Since.kind = "last"
           prev == lf[s]
       IN /\ sess' = [sess EXCEPT ![s].lastReturnedIdx = advanceCursor(S, res)]
          /\ lf' = [lf EXCEPT ![s] =
                [resultMax |-> IF Len(res) > 0 THEN res[Len(res)] ELSE -1,
                 quiet |-> IF ~isLast THEN "no"
                           ELSE IF IsPlain(opts) THEN "plain" ELSE "filtered",
                 after |-> IF isLast THEN prev.quiet ELSE "no",
                 lastOnce |-> IF isLast THEN prev.lastOnce \cup SeqToSet(res)
                              ELSE prev.lastOnce,
                 lastTwice |-> IF isLast
                               THEN prev.lastTwice \cup (prev.lastOnce \cap SeqToSet(res))
                               ELSE prev.lastTwice,
                 other |-> IF observe
                           THEN prev.other \/ ~(isLast /\ IsPlain(opts))
                           ELSE prev.other,
                 obs |-> IF observe
                         THEN [called |-> TRUE, opts |-> opts,
                               n |-> Len(S.flowsOrdered), res |-> res]
                         ELSE prev.obs]]
    /\ UNCHANGED <<storeCall, config, captured, closed, sessions, byLabel, flowStore, cs, worker, reqs, ctxs,
                   addSeeds, stopPc, closePc>>

ListFlows(ident, opts) == ListFlowsCall(ident, opts, FALSE)

\* The Since values a caller may pass on session s: none, "last", the ID of a
\* flow of the session, or an ID that is no flow's.
SinceValues(s) ==
    {[kind |-> "none", id |-> NoID], [kind |-> "last", id |-> NoID],
     [kind |-> "id", id |-> NoID]}
        \cup {[kind |-> "id", id |-> f] : f \in DOMAIN sess[s].flowsByID}

SinceIDOptions(s) ==
    {o \in [Since : SinceValues(s), StatusCodes : {<<>>, <<201>>},
            Offset : 0 .. MaxOffset, Limit : 0 .. MaxLimit] : o.Since.kind = "id"}

ListOptions(s) ==
    [Since : SinceValues(s), StatusCodes : {<<>>, <<201>>},
     Offset : 0 .. MaxOffset, Limit : 0 .. MaxLimit]

(***************************************************************************)
(* GetFlow: FlowStore.Lookup, then the session, then its flowsByID.        *)
(***************************************************************************)
GetFlowFound(flowID) ==
    /\ flowID \in DOMAIN flowStore
    /\ flowStore[flowID] \in sessions
    /\ flowID \in DOMAIN sess[flowStore[flowID]].flowsByID

(***************************************************************************)
(* Specifications.  Spec is the backend with several CreateSession calls   *)
(* for sessions without seeds, with StopSession and Close; SpecCrawl is    *)
(* one session crawling the three pages with AddSeeds and StopSession;     *)
(* SpecList is one session crawling a server that answers every request,   *)
(* with ListFlows calls interleaved.                                       *)
(***************************************************************************)
URLSeed(str) == [URL |-> str, FlowID |-> ""]

BackendOptions ==
    {[NoOpts EXCEPT !.Label = l, !.ExplicitDomains = {"h"}] : l \in Labels}

CrawlOptions ==
    {[NoOpts EXCEPT !.Label = "L", !.Seeds = <<URLSeed("h/a")>>, !.MaxRequests = m,
                    !.SubmitForms = TRUE] : m \in {0, 2}}

ListCrawlOptions ==
    {[NoOpts EXCEPT !.Seeds = <<URLSeed("h/a")>>, !.SubmitForms = TRUE]}

CrawlSessions == {1}

RequestStep ==
    \E r \in reqs :
        \/ OnRequest(r)
        \/ \E ok \in BOOLEAN : RoundTrip(r, ok)
        \/ OnResponse(r)
        \/ Register(r)
        \/ OnError(r)
        \/ OnHTMLLink(r)
        \/ OnHTMLForm(r)

WorkerStep ==
    \E s \in SessionIDs : WorkerSeed(s) \/ WorkerWait(s) \/ WorkerMark(s)

StopStep ==
    \/ \E ident \in Identifiers : StopSession(ident)
    \/ \E s \in SessionIDs : StopSessionCancel(s)

CloseStep == Close \/ CloseCancel

AddSeedsStep ==
    \/ \E a \in AddSeedsCalls, ident \in Identifiers :
            AddSeedsBegin(a, ident, <<URLSeed("h/a"), [URL |-> "", FlowID |-> "p1"]>>)
    \/ \E a \in AddSeedsCalls : AddSeedsMerge(a) \/ AddSeedsVisit(a)

Next ==
    \/ \E c \in SessionIDs, opts \in BackendOptions : CreateSessionCheck(c, opts)
    \/ \E c \in SessionIDs : CreateSessionRegister(c)
    \/ \E s \in SessionIDs : WorkerWait(s) \/ WorkerMark(s)
    \/ StopStep
    \/ CloseStep

Spec == Init /\ [][Next]_vars

NextCrawl ==
    \/ \E c \in CrawlSessions, opts \in CrawlOptions : CreateSessionCheck(c, opts)
    \/ \E c \in CrawlSessions : CreateSessionRegister(c)
    \/ WorkerStep
    \/ RequestStep
    \/ StopStep
    \/ AddSeedsStep

SpecCrawl == Init /\ [][NextCrawl]_vars

NextList ==
    \/ \E c \in CrawlSessions, opts \in ListCrawlOptions : CreateSessionCheck(c, opts)
    \/ \E c \in CrawlSessions : CreateSessionRegister(c)
    \/ WorkerStep
    \/ \E r \in reqs :
          \/ OnRequest(r)
          \/ RoundTrip(r, TRUE)
          \/ OnResponse(r)
          \/ Register(r)
          \/ OnHTMLLink(r)
          \/ OnHTMLForm(r)
    \/ \E s \in CrawlSessions :
          \E opts \in ListOptions(s) : ListFlows([id |-> s, label |-> "-"], opts)

SpecList == Init /\ [][NextList]_vars

\* One session crawling a server that answers every request, and one
\* ListFlows call whose Since is a flow ID, made at any moment of the crawl
\* (what such a call returns does not depend on earlier calls).
NextSince ==
    \/ \E c \in CrawlSessions, opts \in ListCrawlOptions : CreateSessionCheck(c, opts)
    \/ \E c \in CrawlSessions : CreateSessionRegister(c)
    \/ WorkerStep
    \/ \E r \in reqs :
          \/ OnRequest(r)
          \/ RoundTrip(r, TRUE)
          \/ OnResponse(r)
          \/ Register(r)
          \/ OnHTMLLink(r)
          \/ OnHTMLForm(r)
    \/ \E s \in CrawlSessions :
          \E opts \in SinceIDOptions(s) :
              /\ ~lf[s].obs.called
              /\ ListFlowsCall([id |-> s, label |-> "-"], opts, TRUE)

SpecSince == Init /\ [][NextSince]_vars

\* One session crawling a server that answers every request, with observed
\* ListFlows calls: Since="last" without filter, Offset and Limit, and calls
\* of the other kinds.
CursorOptions(s) ==
    {o \in ListOptions(s) :
        \/ o.Since.kind = "last" /\ o.Offset = 0 /\ o.Limit <= 1
        \/ o.Since.kind = "none" /\ IsPlain(o)
        \/ o.Since.kind = "id" /\ o.Since.id # NoID /\ IsPlain(o)}

NextCursor ==
    \/ \E c \in CrawlSessions, opts \in ListCrawlOptions : CreateSessionCheck(c, opts)
    \/ \E c \in CrawlSessions : CreateSessionRegister(c)
    \/ WorkerStep
    \/ \E r \in reqs :
          \/ OnRequest(r)
          \/ RoundTrip(r, TRUE)
          \/ OnResponse(r)
          \/ Register(r)
          \/ OnHTMLLink(r)
          \/ OnHTMLForm(r)
    \/ \E s \in CrawlSessions :
          \E opts \in CursorOptions(s) :
              ListFlowsCall([id |-> s, label |-> "-"], opts, TRUE)

SpecCursor == Init /\ [][NextCursor]_vars

\* The backend with several CreateSession calls for sessions without seeds
\* and Close.
NextClose ==
    \/ \E c \in SessionIDs, opts \in BackendOptions : CreateSessionCheck(c, opts)
    \/ \E c \in SessionIDs : CreateSessionRegister(c)
    \/ \E s \in SessionIDs : WorkerWait(s) \/ WorkerMark(s)
    \/ CloseStep

SpecClose == Init /\ [][NextClose]_vars

\* The backend with several CreateSession calls that all ask for label "L",
\* with StopSession, completion and Close.
LabelOptions == {[NoOpts EXCEPT !.Label = "L", !.ExplicitDomains = {"h"}]}

NextLabels ==
    \/ \E c \in SessionIDs, opts \in LabelOptions : CreateSessionCheck(c, opts)
    \/ \E c \in SessionIDs : CreateSessionRegister(c)
    \/ \E s \in SessionIDs : WorkerWait(s) \/ WorkerMark(s)
    \/ StopStep
    \/ CloseStep

SpecLabels == Init /\ [][NextLabels]_vars

\* The backend with CreateSession calls of every kind (no domain, an invalid
\* seed URL, an unknown seed flow, a label, no label) and Close.
CreateOptions ==
    BackendOptions
        \cup {NoOpts, [NoOpts EXCEPT !.Seeds = <<URLSeed(":bad")>>],
              [NoOpts EXCEPT !.Seeds = <<[URL |-> "", FlowID |-> "px"]>>]}

NextCreate ==
    \/ \E c \in SessionIDs, opts \in CreateOptions : CreateSessionCheck(c, opts)
    \/ \E c \in SessionIDs : CreateSessionRegister(c)
    \/ \E s \in SessionIDs : WorkerWait(s) \/ WorkerMark(s)
    \/ CloseStep

SpecCreate == Init /\ [][NextCreate]_vars

\* One session whose seeds are the four resources of the four content types.
ContentTypeOptions ==
    {[NoOpts EXCEPT !.Seeds = <<URLSeed(UC), URLSeed(UD), URLSeed(UE), URLSeed(UF)>>]}

\* None of the four is an HTML document, so no OnHTML callback runs.
NextTypes ==
    \/ \E c \in CrawlSessions, opts \in ContentTypeOptions : CreateSessionCheck(c, opts)
    \/ \E c \in CrawlSessions : CreateSessionRegister(c)
    \/ WorkerStep
    \/ \E r \in reqs :
          \/ OnRequest(r)
          \/ \E ok \in BOOLEAN : RoundTrip(r, ok)
          \/ OnResponse(r)
          \/ Register(r)
          \/ OnError(r)

SpecTypes == Init /\ [][NextTypes]_vars

\* The capturing transport alone: captureResponse on every response, under
\* every limit from -1 to MaxBodyBytes.
NextCapture ==
    \E resp \in Responses, k \in -1 .. MaxBodyBytes : CaptureResponse(resp, k)

SpecCapture == Init /\ [][NextCapture]_vars

\* A backend of either configuration with one session seeded with
\* https://example.com/, with and without the IncludeSubdomains option.
Configs == [IncludeSubdomains : BOOLEAN, DefaultDisallowedPaths : {DefaultDisallowedPaths}]

InitScope ==
    /\ config \in Configs
    /\ NewCollyBackend

ScopeOptions ==
    {[NoOpts EXCEPT !.Seeds = <<URLSeed(UG)>>, !.IncludeSubdomains = b, !.SubmitForms = TRUE,
                    !.ExplicitDomains = D] : b \in BOOLEAN, D \in {{}, {"h"}}}

NextScope ==
    \/ \E c \in CrawlSessions, opts \in ScopeOptions : CreateSessionCheck(c, opts)
    \/ \E c \in CrawlSessions : CreateSessionRegister(c)
    \/ WorkerStep
    \/ RequestStep

SpecScope == InitScope /\ [][NextScope]_vars

\* One session crawling the three pages and never stopped.  The worker and
\* the request goroutines are scheduled goroutines: each keeps running while
\* it has a step to take, and every round trip returns (with a response or
\* an error).
NextLive ==
    \/ \E c \in CrawlSessions, opts \in CrawlOptions : CreateSessionCheck(c, opts)
    \/ \E c \in CrawlSessions : CreateSessionRegister(c)
    \/ WorkerStep
    \/ RequestStep

SpecLive == Init /\ [][NextLive]_vars /\ WF_vars(WorkerStep) /\ WF_vars(RequestStep)

\* One session with path filters: allowed and disallowed glob patterns, with
\* and without form submission and a request limit, crawling from /a or /k.
PathOptions ==
    {[NoOpts EXCEPT !.Seeds = <<URLSeed(u)>>, !.AllowedPaths = A, !.DisallowedPaths = D,
                    !.SubmitForms = f, !.MaxRequests = m] :
        u \in {"h/a", UK}, A \in AllowedPathSets, D \in DisallowedPathSets,
        f \in BOOLEAN, m \in {0, 2}}

NextPaths ==
    \/ \E c \in CrawlSessions, opts \in PathOptions : CreateSessionCheck(c, opts)
    \/ \E c \in CrawlSessions : CreateSessionRegister(c)
    \/ WorkerStep
    \/ RequestStep

SpecPaths == Init /\ [][NextPaths]_vars

\* The flow store alone, its methods called in any order on three flow IDs
\* and two session IDs.
StoreFlowIDs == {<<0, 1>>, <<0, 2>>, <<0, 3>>}

StoreSessionIDs == {1, 2}

NextStore ==
    \/ \E f \in StoreFlowIDs, s \in StoreSessionIDs : StoreRegister(f, s)
    \/ \E f \in StoreFlowIDs : StoreLookup(f) \/ StoreExists(f) \/ StoreDelete(f)
    \/ \E s \in StoreSessionIDs : StoreRemoveSession(s)
    \/ StoreCount
    \/ StoreClear

SpecStore == Init /\ [][NextStore]_vars

\* One session crawling the three pages, with AddSeeds and Close.
NextShutdown ==
    \/ \E c \in CrawlSessions, opts \in ListCrawlOptions : CreateSessionCheck(c, opts)
    \/ \E c \in CrawlSessions : CreateSessionRegister(c)
    \/ WorkerStep
    \/ RequestStep
    \/ CloseStep
    \/ AddSeedsStep

SpecShutdown == Init /\ [][NextShutdown]_vars

\* One session crawling the three pages, with observed StopSession calls.
NextStop ==
    \/ \E c \in CrawlSessions, opts \in ListCrawlOptions : CreateSessionCheck(c, opts)
    \/ \E c \in CrawlSessions : CreateSessionRegister(c)
    \/ WorkerStep
    \/ RequestStep
    \/ \E ident \in Identifiers : StopSessionCall(ident, TRUE)
    \/ \E s \in SessionIDs : StopSessionCancel(s)

SpecStop == Init /\ [][NextStop]_vars

\* One session seeded with proxy flow p1, crawling the three pages, with
\* AddSeeds calls that bring /a and proxy flow p2.
SeedFlowOptions ==
    {[NoOpts EXCEPT !.Seeds = <<[URL |-> "", FlowID |-> "p1"]>>, !.SubmitForms = TRUE]}

NextSeeds ==
    \/ \E c \in CrawlSessions, opts \in SeedFlowOptions : CreateSessionCheck(c, opts)
    \/ \E c \in CrawlSessions : CreateSessionRegister(c)
    \/ WorkerStep
    \/ RequestStep
    \/ \E a \in AddSeedsCalls, ident \in Identifiers :
          AddSeedsBegin(a, ident, <<URLSeed("h/a"), [URL |-> "", FlowID |-> "p2"]>>)
    \/ \E a \in AddSeedsCalls : AddSeedsMerge(a) \/ AddSeedsVisit(a)

SpecSeeds == Init /\ [][NextSeeds]_vars

\* One session crawling example.com, with and without subdomains, and
\* AddSeeds calls whose seeds (URLs and a proxy flow) lie on other hosts or
\* on a subdomain.
ExtendSeeds ==
    {<<URLSeed(UA)>>, <<URLSeed(UI), URLSeed(UH)>>, <<URLSeed(UJ), URLSeed(UG)>>,
     <<[URL |-> "", FlowID |-> "p1"]>>}

ExtendOptions ==
    {[NoOpts EXCEPT !.Seeds = <<URLSeed(UG)>>, !.IncludeSubdomains = b] : b \in BOOLEAN}

NextExtend ==
    \/ \E c \in CrawlSessions, opts \in ExtendOptions : CreateSessionCheck(c, opts)
    \/ \E c \in CrawlSessions : CreateSessionRegister(c)
    \/ WorkerStep
    \/ RequestStep
    \/ \E a \in AddSeedsCalls, ident \in Identifiers, seeds \in ExtendSeeds :
          AddSeedsBegin(a, ident, seeds)
    \/ \E a \in AddSeedsCalls : AddSeedsMerge(a) \/ AddSeedsVisit(a)

SpecExtend == InitScope /\ [][NextExtend]_vars

\* One session crawling from /m with form submission: /m leads to /b and
\* /e, /b to /a and /c and to its own form.
ChainOptions == {[NoOpts EXCEPT !.Seeds = <<URLSeed(UM)>>, !.SubmitForms = TRUE]}

NextChain ==
    \/ \E c \in CrawlSessions, opts \in ChainOptions : CreateSessionCheck(c, opts)
    \/ \E c \in CrawlSessions : CreateSessionRegister(c)
    \/ WorkerStep
    \/ RequestStep

SpecChain == Init /\ [][NextChain]_vars

\* One session seeded with one or both proxy flows, in either order.
FlowSeed(fid) == [URL |-> "", FlowID |-> fid]

ResolveOptions ==
    {[NoOpts EXCEPT !.Seeds = seeds] :
        seeds \in {<<FlowSeed("p1")>>, <<FlowSeed("p2")>>,
                   <<FlowSeed("p1"), FlowSeed("p2")>>,
                   <<FlowSeed("p2"), FlowSeed("p1")>>}}

NextResolve ==
    \/ \E c \in CrawlSessions, opts \in ResolveOptions : CreateSessionCheck(c, opts)
    \/ \E c \in CrawlSessions : CreateSessionRegister(c)
    \/ WorkerStep
    \/ RequestStep

SpecResolve == Init /\ [][NextResolve]_vars

\* One session with MaxRequests = 1 and a single seed, /a or /c, with
\* StopSession and AddSeeds.
OneRequestOptions ==
    {[NoOpts EXCEPT !.Seeds = <<URLSeed(u)>>, !.MaxRequests = 1, !.SubmitForms = TRUE] :
        u \in {"h/a", "https://h/c"}}

NextOne ==
    \/ \E c \in CrawlSessions, opts \in OneRequestOptions : CreateSessionCheck(c, opts)
    \/ \E c \in CrawlSessions : CreateSessionRegister(c)
    \/ WorkerStep
    \/ RequestStep
    \/ StopStep
    \/ AddSeedsStep

SpecOne == Init /\ [][NextOne]_vars

(***************************************************************************)
(* Properties.                                                             *)
(***************************************************************************)
InFlight(s) == {r \in reqs : r.sid = s /\ r.st \in {"started", "responded", "failed"}}

Running(s) == sess[s].State = crawlStateRunning

Terminal(s) == sess[s].State \in {crawlStateStopped, crawlStateCompleted}

\* C1: with MaxRequests > 0 the request count of a session never exceeds
\* MaxRequests, and a request start that finds the limit reached is aborted
\* (its goroutine ends) and changes neither requestCount nor urlsQueued.
C1_RequestCountBounded ==
    /\ [](\A s \in sessions :
            sess[s].opts.MaxRequests > 0
                => sess[s].requestCount <= sess[s].opts.MaxRequests)
    /\ [][\A r \in reqs :
            (/\ r.st = "queued"
             /\ requestLimitReached(sess[r.sid])
             /\ r \notin reqs')
                => /\ \A r2 \in reqs' : ~(r2.sid = r.sid /\ r2.id = r.id)
                   /\ sess'[r.sid].requestCount = sess[r.sid].requestCount
                   /\ sess'[r.sid].urlsQueued = sess[r.sid].urlsQueued]_vars

\* A session at its limit: more URLs were dispatched than were counted, and
\* every goroutine has ended.
C1_Witness ==
    \E s \in sessions :
        /\ sess[s].opts.MaxRequests > 0
        /\ sess[s].requestCount = sess[s].opts.MaxRequests
        /\ Cardinality(sess[s].visited) > sess[s].requestCount
        /\ wgCount(s) = 0

\* C2: urlsQueued is never negative and equals the number of counted requests
\* that have not yet reached their terminal path (filtered response, stored
\* flow, or error), so each counted request decrements it exactly once.
C2_QueuedIsInFlight ==
    \A s \in sessions :
        /\ sess[s].urlsQueued >= 0
        /\ sess[s].urlsQueued = Cardinality(InFlight(s))

\* All three terminal paths have been taken and nothing is in flight.
C2_Witness ==
    \E s \in sessions :
        /\ sess[s].urlsQueued = 0
        /\ Len(sess[s].flowsOrdered) > 0
        /\ Len(sess[s].errors) > 0
        /\ sess[s].requestCount > Len(sess[s].flowsOrdered) + Len(sess[s].errors)

\* C3: the number of registered sessions in state running never exceeds
\* MaxConcurrentSessions.
C3_RunningBounded ==
    Cardinality({s \in sessions : Running(s)}) <= MaxConcurrentSessions

\* C4: no two registered sessions share a non-empty label, and byLabel maps
\* a label to the only session that carries it.
C4_LabelUnique ==
    \A s1 \in sessions :
        sess[s1].opts.Label # ""
            => /\ \A s2 \in sessions : sess[s2].opts.Label = sess[s1].opts.Label => s2 = s1
               /\ sess[s1].opts.Label \in DOMAIN byLabel
               /\ byLabel[sess[s1].opts.Label] = s1

\* C5: a session's state changes only from running to completed (by its
\* worker goroutine, after the wait for the crawl has returned) or from
\* running to stopped; stopped and completed are never left.
C5_StateTransitions ==
    [][\A s \in sessions :
            sess'[s].State # sess[s].State
                => /\ Running(s)
                   /\ \/ /\ sess'[s].State = crawlStateCompleted
                         /\ worker[s].pc = "mark"
                         /\ worker'[s].pc = "done"
                      \/ sess'[s].State = crawlStateStopped]_vars

\* The worker has finished on a session that was stopped first, and the
\* session is still stopped.
C5_Witness ==
    \E s \in sessions :
        /\ sess[s].State = crawlStateStopped
        /\ worker[s].pc = "done"

\* C6: once a session is stopped or completed, its flows, forms and errors
\* never change.
C6_FrozenAfterTerminal ==
    [][\A s \in sessions :
            Terminal(s)
                => /\ sess'[s].flowsOrdered = sess[s].flowsOrdered
                   /\ sess'[s].flowsByID = sess[s].flowsByID
                   /\ sess'[s].forms = sess[s].forms
                   /\ sess'[s].errors = sess[s].errors]_vars

\* C7: a flow ID is in some session's flowsByID exactly when the FlowStore
\* maps it to that session, so every flow ListFlows can list is found by
\* GetFlow in the same state.
C7_FlowStoreConsistent ==
    /\ \A s \in sessions : \A f \in DOMAIN sess[s].flowsByID :
            f \in DOMAIN flowStore /\ flowStore[f] = s /\ GetFlowFound(f)
    /\ \A f \in DOMAIN flowStore :
            flowStore[f] \in sessions /\ f \in DOMAIN sess[flowStore[f]].flowsByID

\* C8: no flow of a session is returned by two different ListFlows calls
\* with Since = "last".
C8_NoFlowTwice == \A s \in sessions : lf[s].lastTwice = {}

\* A Since = "last" call that followed another one without a commit between
\* returned the newest flow, and every flow has been returned by such calls.
C8_Witness ==
    \E s \in sessions :
        /\ Len(sess[s].flowsOrdered) >= 2
        /\ lf[s].after = "filtered"
        /\ lf[s].resultMax = Len(sess[s].flowsOrdered) - 1
        /\ Cardinality(lf[s].lastOnce) = Len(sess[s].flowsOrdered)

\* C9 as stated: of two consecutive ListFlows calls with Since = "last" and
\* no flow committed between them, the second returns nothing, whatever the
\* filters, Offset and Limit of either call.
C9_SecondLastEmpty ==
    \A s \in sessions : lf[s].after # "no" => lf[s].resultMax = -1

\* C9 amended: of two consecutive ListFlows calls with Since = "last" and no
\* flow committed between them, the second returns nothing, whatever its
\* filters, Offset and Limit, when the first call had no filter, Offset 0 and
\* Limit 0.
C9_SecondLastEmptyAfterPlain ==
    \A s \in sessions : lf[s].after = "plain" => lf[s].resultMax = -1

\* The second of two such calls has been made on a session whose first call
\* returned flows.
C9_Witness ==
    \E s \in sessions :
        /\ lf[s].after = "plain"
        /\ Len(sess[s].flowsOrdered) >= 2
        /\ Cardinality(lf[s].lastOnce) = Len(sess[s].flowsOrdered)

\* C10: lastReturnedIdx never decreases and never exceeds the number of
\* flows; after a call that returned flows it is at least the highest returned
\* index plus one; it changes only in a call that returned flows.
C10_CursorMonotonic ==
    /\ [](\A s \in sessions :
            /\ sess[s].lastReturnedIdx >= 0
            /\ sess[s].lastReturnedIdx <= Len(sess[s].flowsOrdered)
            /\ sess[s].lastReturnedIdx >= lf[s].resultMax + 1)
    /\ [][\A s \in sessions :
            /\ sess'[s].lastReturnedIdx >= sess[s].lastReturnedIdx
            /\ sess'[s].lastReturnedIdx # sess[s].lastReturnedIdx
                  => /\ lf'[s].resultMax >= 0
                     /\ sess'[s].lastReturnedIdx = lf'[s].resultMax + 1]_vars

\* A call returned flows below the cursor and the cursor stayed where it was.
C10_Witness ==
    \E s \in sessions :
        /\ lf[s].resultMax >= 0
        /\ sess[s].lastReturnedIdx > lf[s].resultMax + 1


\* The index of the flow with the given ID among the first n flows of
\* session s, or -1.
IndexOfFlow(s, id, n) ==
    LET hits == {i \in 0 .. n - 1 : sess[s].flowsOrdered[i + 1].ID = id}
    IN IF hits = {} THEN -1 ELSE SetMin(hits)

\* What a call with options o on the first n flows of session s is to
\* return when iteration starts right after index k: the matching indices
\* above k in commit order, less the first Offset, cut to Limit.
ExpectedAfter(s, o, n, k) ==
    LET Matches(i) == i > k /\ (Len(o.StatusCodes) > 0 =>
                                  \E j \in 1 .. Len(o.StatusCodes) :
                                      sess[s].flowsOrdered[i + 1].StatusCode = o.StatusCodes[j])
        after == SelectSeq([i \in 1 .. n |-> i - 1], Matches)
        rest == IF o.Offset >= Len(after) THEN <<>>
                ELSE SubSeq(after, o.Offset + 1, Len(after))
    IN IF o.Limit > 0 /\ o.Limit < Len(rest) THEN SubSeq(rest, 1, o.Limit) ELSE rest

\* C11 as stated: a ListFlows call whose Since is a flow ID returns only
\* flows committed strictly after that flow, in commit order, Offset and
\* Limit applied after filtering; no flow is after an ID that is not a flow
\* of the session, so such a call returns nothing.
C11_SinceIDAfterFlow ==
    \A s \in sessions :
        LET o == lf[s].obs
            k == IndexOfFlow(s, o.opts.Since.id, o.n)
        IN (o.called /\ o.opts.Since.kind = "id")
               => o.res = IF k = -1 THEN <<>> ELSE ExpectedAfter(s, o.opts, o.n, k)

\* C11 amended: a ListFlows call whose Since is the ID of a flow of the
\* session returns exactly the matching flows committed strictly after that
\* flow, in commit order, Offset and Limit applied after filtering; a call
\* whose Since is no flow's ID returns what a call without Since returns.
C11_SinceFlowOfSession ==
    \A s \in sessions :
        LET o == lf[s].obs
            k == IndexOfFlow(s, o.opts.Since.id, o.n)
        IN (o.called /\ o.opts.Since.kind = "id")
               => o.res = ExpectedAfter(s, o.opts, o.n, k)

\* A call with Since the first flow's ID, Offset 1 and a Limit returned a
\* later flow while a flow between them was skipped.
C11_Witness ==
    \E s \in sessions :
        LET o == lf[s].obs
        IN /\ o.called
           /\ o.opts.Since.kind = "id"
           /\ IndexOfFlow(s, o.opts.Since.id, o.n) = 0
           /\ o.opts.Offset = 1
           /\ o.opts.Limit = 1
           /\ o.res = <<2>>

\* C12: with MaxRequests > 0 the flows and errors of a session together
\* never number more than MaxRequests.
C12_OutcomesBounded ==
    \A s \in sessions :
        sess[s].opts.MaxRequests > 0
            => Len(sess[s].flowsOrdered) + Len(sess[s].errors) <= sess[s].opts.MaxRequests

\* A finished session holds as many flows and errors as MaxRequests allows,
\* at least one of each, and dispatched more URLs than that.
C12_Witness ==
    \E s \in sessions :
        /\ sess[s].opts.MaxRequests > 0
        /\ worker[s].pc = "done"
        /\ Len(sess[s].flowsOrdered) > 0
        /\ Len(sess[s].errors) > 0
        /\ Len(sess[s].flowsOrdered) + Len(sess[s].errors) = sess[s].opts.MaxRequests
        /\ Cardinality(sess[s].visited) > sess[s].opts.MaxRequests

\* C13: a session created with MaxRequests = 1 and at least one seed URL
\* holds exactly one flow or error once it has finished with no request in
\* flight.
C13_ExactlyOneOutcome ==
    \A s \in sessions :
        (/\ sess[s].opts.MaxRequests = 1
         /\ Len(sess[s].seedURLs) >= 1
         /\ worker[s].pc = "done"
         /\ wgCount(s) = 0)
            => Len(sess[s].flowsOrdered) + Len(sess[s].errors) = 1

\* C14: in every state of a session no two flows carry the same URL and no
\* two errors carry the same URL.
C14_OneOutcomePerURL ==
    \A s \in sessions :
        /\ \A i, j \in 1 .. Len(sess[s].flowsOrdered) :
               sess[s].flowsOrdered[i].URL = sess[s].flowsOrdered[j].URL => i = j
        /\ \A i, j \in 1 .. Len(sess[s].errors) :
               sess[s].errors[i].URL = sess[s].errors[j].URL => i = j

C16_AddSeedsAfterClose ==
    [][\A a \in AddSeedsCalls :
           (/\ closePc.pc = "done"
            /\ addSeeds[a].pc = "idle"
            /\ addSeeds'[a].pc # "idle"
            /\ addSeeds'[a].sid # 0)
               => /\ addSeeds'[a].pc = "done"
                  /\ addSeeds'[a].err = "backend is closed"]_vars

\* C17: once the Close call that closed the backend has returned, the
\* context of every registered session is cancelled, whatever CreateSession
\* calls raced with it; the backend stays closed, and a later Close call
\* changes nothing.
C17_CloseCancelsAll ==
    /\ [](closePc.pc = "done" => \A s \in sessions : sess[s].cancelled)
    /\ [][/\ closed => closed'
          /\ closePc.pc = "done" => /\ closePc' = closePc
                                    /\ sessions' = sessions]_vars

\* Close has returned with a session registered before it and a racing
\* CreateSession call refused at registration.
C17_Witness ==
    /\ closePc.pc = "done"
    /\ \E s \in sessions : sess[s].cancelled
    /\ \E c \in SessionIDs : cs[c].at = "register" /\ cs[c].err = "backend is closed"

\* C18: StopSession on a running session sets its state to stopped and
\* cancels its context; on a stopped or completed session it leaves the state
\* as it is; a stopped or completed session never changes state.
C18_StopIdempotent ==
    /\ [](\A s \in sessions :
            /\ stopPc[s].before = crawlStateRunning => stopPc[s].after = crawlStateStopped
            /\ stopPc[s].before \in {crawlStateStopped, crawlStateCompleted}
                   => stopPc[s].after = stopPc[s].before
            /\ sess[s].State = crawlStateStopped
                   => sess[s].cancelled \/ stopPc[s].pc = "cancel")
    /\ [][\A s \in sessions : Terminal(s) => sess'[s].State = sess[s].State]_vars

\* StopSession was called on a session already stopped and cancelled, and the
\* session is still stopped.
C18_Witness ==
    \E s \in sessions :
        /\ stopPc[s].before = crawlStateStopped
        /\ stopPc[s].after = crawlStateStopped
        /\ stopPc[s].pc = "idle"
        /\ sess[s].cancelled
        /\ sess[s].State = crawlStateStopped

\* C19: an AddSeeds call on a stopped or completed session returns the
\* session-not-running error and leaves the session as it is; a call whose
\* identifier resolves to no session returns session-not-found.
C19_AddSeedsNotRunning ==
    [][\A a \in AddSeedsCalls :
           (addSeeds[a].pc = "idle" /\ addSeeds'[a].pc # "idle")
               => LET s == addSeeds'[a].sid
                  IN /\ s = 0 => /\ addSeeds'[a].pc = "done"
                                 /\ addSeeds'[a].err = "session not found"
                                 /\ sess' = sess
                     /\ (s # 0 /\ Terminal(s))
                            => /\ addSeeds'[a].pc = "done"
                               /\ addSeeds'[a].err = "session is not running"
                               /\ sess'[s] = sess[s]]_vars

\* A call on a completed session has returned session-not-running.
C19_Witness ==
    \E a \in AddSeedsCalls :
        /\ addSeeds[a].pc = "done"
        /\ addSeeds[a].err = "session is not running"
        /\ sess[addSeeds[a].sid].State = crawlStateCompleted
        /\ Len(sess[addSeeds[a].sid].flowsOrdered) > 0

\* C20: no step changes or removes a header the session's seedHeaders
\* already holds; a seed-loop step of AddSeeds on a URL already in urlsSeen
\* changes nothing in the session and issues no request, and on an unseen
\* URL it marks that URL seen and issues at most one request, for that URL.
C20_AddSeedsFrame ==
    [][/\ \A s \in sessions : \A k \in DOMAIN sess[s].seedHeaders :
              /\ k \in DOMAIN sess'[s].seedHeaders
              /\ sess'[s].seedHeaders[k] = sess[s].seedHeaders[k]
       /\ \A a \in AddSeedsCalls :
              (addSeeds[a].pc = "visit" /\ addSeeds'[a] # addSeeds[a])
                  => LET s == addSeeds[a].sid
                         u == addSeeds[a].seedURLs[addSeeds[a].i]
                     IN IF u \in sess[s].urlsSeen
                        THEN sess'[s] = sess[s] /\ reqs' = reqs
                        ELSE /\ sess'[s].urlsSeen = sess[s].urlsSeen \cup {u}
                             /\ reqs \subseteq reqs'
                             /\ Cardinality(reqs' \ reqs) <= 1
                             /\ \A r \in reqs' \ reqs : r.url = u /\ r.sid = s]_vars

\* An AddSeeds call has merged the headers of proxy flow p2 (Cookie "sid=2",
\* Authorization) into a session that held Cookie "sid=1": the value is kept,
\* Authorization is added, and the seed loop stands at a URL link discovery
\* has already marked.
C20_Witness ==
    \E a \in AddSeedsCalls :
        /\ addSeeds[a].pc = "visit"
        /\ addSeeds[a].sid # 0
        /\ LET S == sess[addSeeds[a].sid]
           IN /\ "Cookie" \in DOMAIN S.seedHeaders
              /\ S.seedHeaders["Cookie"] = "sid=1"
              /\ "Authorization" \in DOMAIN S.seedHeaders
              /\ addSeeds[a].seedURLs[addSeeds[a].i] \in S.urlsSeen

\* C21: a CreateSession call that returned an error has registered no
\* session, reserved no label and started no worker, and the step in which it
\* returns the error leaves sessions, byLabel, the session records and the
\* workers unchanged.
C21_FailedCreateFrame ==
    /\ [](\A c \in SessionIDs :
            (cs[c].pc = "done" /\ cs[c].err # NoErr)
                => /\ c \notin sessions
                   /\ c \notin Range(byLabel)
                   /\ worker[c].pc = "none")
    /\ [][\A c \in SessionIDs :
            (cs[c].pc # "done" /\ cs'[c].pc = "done" /\ cs'[c].err # NoErr)
                => /\ sessions' = sessions
                   /\ byLabel' = byLabel
                   /\ sess' = sess
                   /\ worker' = worker]_vars

\* A labelled session is registered, a second call was refused for the label
\* and a third one after Close, at its registration.
C21_Witness ==
    /\ "L" \in DOMAIN byLabel
    /\ \E c \in SessionIDs : cs[c].pc = "done" /\ cs[c].err = "label exists"
    /\ \E c \in SessionIDs :
          cs[c].pc = "done" /\ cs[c].err = "backend is closed" /\ cs[c].at = "register"

\* C22: in a session created with MaxDepth = 0 only seed URLs are requested:
\* every request that has started is a seed request (depth 1), and every flow
\* has FoundOn = "seed".
C22_OnlySeedsAtDepthZero ==
    \A s \in sessions :
        sess[s].opts.MaxDepth = 0
            => /\ \A r \in reqs : (r.sid = s /\ r.st # "queued") => r.depth = 1
               /\ \A i \in 1 .. Len(sess[s].flowsOrdered) :
                      sess[s].flowsOrdered[i].FoundOn = "seed"

\* C23: a session created with MaxRequests = 0 never counts more than the
\* configured DefaultMaxRequests requests, and a session created with
\* MaxDepth = 0 starts no request deeper than the configured DefaultMaxDepth.
C23_ConfigDefaultsApplied ==
    \A s \in sessions :
        /\ sess[s].opts.MaxRequests = 0 => sess[s].requestCount <= DefaultMaxRequests
        /\ sess[s].opts.MaxDepth = 0
               => \A r \in reqs : (r.sid = s /\ r.st # "queued") => r.depth <= DefaultMaxDepth

\* The step in which OnResponse runs for request r: it stores a flow for
\* r's URL, or it stores none and decrements urlsQueued.
OnResponseStores(r) ==
    /\ Len(sess'[r.sid].flowsOrdered) = Len(sess[r.sid].flowsOrdered) + 1
    /\ sess'[r.sid].flowsOrdered[Len(sess'[r.sid].flowsOrdered)].URL = r.url

OnResponseDrops(r) ==
    /\ sess'[r.sid].flowsOrdered = sess[r.sid].flowsOrdered
    /\ sess'[r.sid].urlsQueued = sess[r.sid].urlsQueued - 1

\* C24 (as stated): OnResponse drops a text/css response and stores a flow
\* for an application/json response and for one without Content-Type.
C24_CssRejected ==
    [][\A r \in reqs :
          (r.st = "responded" /\ r \notin reqs')
              => LET ct == PageContentType(r.url)
                 IN /\ ct = "text/css" => OnResponseDrops(r)
                    /\ ct \in {"application/json", ""} => OnResponseStores(r)]_vars

\* C24 (amended): OnResponse stores a flow for a text/css response, as for an
\* application/json response and one without Content-Type, whenever the
\* captured entry of the request is found; it drops an image/png response.
C24_TextPrefixAccepted ==
    [][\A r \in reqs :
          (r.st = "responded" /\ r \notin reqs')
              => LET ct == PageContentType(r.url)
                     captureID == ctxs[r.ctx].capture_id
                 IN /\ (/\ ct \in {"text/css", "application/json", ""}
                        /\ captureID \in DOMAIN sess[r.sid].captureStore)
                           => OnResponseStores(r)
                    /\ ct = "image/png" => OnResponseDrops(r)]_vars

\* The session holds the flows of /d (text/css), /e and /f, and the image
\* /c was fetched and dropped.
C24_Witness ==
    \E s \in sessions :
        /\ {UD, UE, UF} = {sess[s].flowsOrdered[i].URL : i \in 1 .. Len(sess[s].flowsOrdered)}
        /\ sess[s].requestCount = 4
        /\ sess[s].urlsQueued = 0
        /\ sess[s].errors = <<>>

\* C25: after captureResponse on a body of n bytes under the limit k: with
\* k > 0 the captured body is the first min(n, k) bytes of the body, the
\* recorded size is n and Truncated holds exactly when n > k; with k <= 0 the
\* captured body is the whole body, the size n and Truncated is false.
C25_BodyTruncation ==
    (captured.called /\ captured.resp.hasBody)
        => LET n == Len(captured.resp.Body)
               k == captured.maxBodyBytes
               m == IF k > 0 /\ k < n THEN k ELSE n
           IN /\ Len(captured.body) = m
              /\ \A i \in 1 .. m : captured.body[i] = captured.resp.Body[i]
              /\ captured.bodySize = n
              /\ captured.truncated <=> (k > 0 /\ n > k)

\* A body of exactly k bytes was captured whole and is not truncated.
C25_Witness ==
    /\ captured.called
    /\ captured.resp.hasBody
    /\ captured.maxBodyBytes = 2
    /\ Len(captured.resp.Body) = 2
    /\ captured.body = captured.resp.Body
    /\ ~captured.truncated

\* The labels of a host name, and "h is d or a subdomain of d".
HostLabels(h) ==
    CASE h = "example.com" -> <<"example", "com">>
      [] h = "a.example.com" -> <<"a", "example", "com">>
      [] h = "x.other.com" -> <<"x", "other", "com">>
      [] h = "notexample.com" -> <<"notexample", "com">>
      [] OTHER -> <<"h">>

IsDomainOrSubdomain(h, d) ==
    LET hl == HostLabels(h)
        dl == HostLabels(d)
    IN /\ Len(hl) >= Len(dl)
       /\ SubSeq(hl, Len(hl) - Len(dl) + 1, Len(hl)) = dl

InScope(s, u) ==
    IF config.IncludeSubdomains /\ sess[s].opts.IncludeSubdomains
    THEN \E d \in sess[s].allowedDomains : IsDomainOrSubdomain(Host(u), d)
    ELSE Host(u) \in sess[s].allowedDomains

C28_FlowStoreFrame ==
    /\ [](storeCall.op = "Count"
            => storeCall.count = Cardinality(DOMAIN storeCall.owner \ storeCall.removed))
    /\ [][storeCall' # storeCall =>
            /\ storeCall'.op = "RemoveSession" =>
                 /\ DOMAIN flowStore' =
                        {f \in DOMAIN flowStore : flowStore[f] # storeCall'.sessionID}
                 /\ \A f \in DOMAIN flowStore' : flowStore'[f] = flowStore[f]
            /\ storeCall'.op = "Delete" =>
                 /\ DOMAIN flowStore' = DOMAIN flowStore \ {storeCall'.flowID}
                 /\ \A f \in DOMAIN flowStore' : flowStore'[f] = flowStore[f]
            /\ (storeCall'.op = "Register" /\ storeCall'.flowID \in DOMAIN flowStore) =>
                 /\ DOMAIN flowStore' = DOMAIN flowStore
                 /\ flowStore'[storeCall'.flowID] = storeCall'.sessionID
                 /\ \A f \in DOMAIN flowStore \ {storeCall'.flowID} :
                        flowStore'[f] = flowStore[f]
            /\ storeCall'.op \in {"Lookup", "Exists", "Count"} => flowStore' = flowStore]_vars

\* Two flows of session 1 and one of session 2 were registered, one of them
\* again for the other session, session 1 was removed, and Count returned 2.
C28_Witness ==
    /\ storeCall.op = "Count"
    /\ storeCall.count = 2
    /\ DOMAIN storeCall.owner = StoreFlowIDs
    /\ storeCall.removed # {}
    /\ \A f \in DOMAIN flowStore : flowStore[f] = 2

\* C29: no URL ever leaves urlsSeen, and a step of the a[href] callback on a
\* link already in urlsSeen changes nothing in the session and issues no
\* request, while on a link not yet in urlsSeen it puts the link there and
\* issues the only visit for it; so of all discoveries of a link exactly the
\* first one that finds it unseen visits it.
C29_FirstDiscovererVisits ==
    [][/\ \A s \in sessions : sess[s].urlsSeen \subseteq sess'[s].urlsSeen
       /\ \A r \in reqs :
              (r.st = "html" /\ r.links # <<>> /\ r \notin reqs')
                  => LET s == r.sid
                         L == Head(r.links)
                         issued == {q \in reqs' : q.sid = s /\ q.st = "queued" /\ q.url = L}
                                       \ reqs
                     IN IF L \in sess[s].urlsSeen
                        THEN /\ sess'[s] = sess[s]
                             /\ issued = {}
                        ELSE /\ L \in sess'[s].urlsSeen
                             /\ sess'[s].parentURLs[L] = r.url
                             /\ issued = {q \in reqs' : q.id = Append(r.id, Len(PageLinks(r.url, r.method)) - Len(r.links) + 1)}
                             /\ Cardinality(issued) <= 1]_vars

\* /c is linked from /a and from /b: the request for /c that the callback
\* of /a issued is under way, and the callback of /b has passed its links,
\* /c among them, without issuing another.
C29_Witness ==
    \E s \in sessions :
        /\ \E q \in reqs : q.sid = s /\ q.url = UC /\ q.id = <<0, 1, 2>>
        /\ \E r \in reqs : r.sid = s /\ r.url = UB /\ r.st = "html" /\ r.links = <<>>
        /\ Cardinality({q \in reqs : q.url = UC}) = 1

\* C30: every captureStore entry the capturing transport wrote for a request
\* is removed by the time the request has reached its terminal path
\* (stored response, content-type-filtered response or transport error), so
\* a session none of whose requests is still being processed holds an empty
\* captureStore.
C30_CaptureStoreDrained ==
    \A s \in sessions :
        {r \in reqs : r.sid = s} = {} => DOMAIN sess[s].captureStore = {}

\* Some allowed pattern matches the path of url, for a session with patterns.
PathMatchesAllowed(s, url) ==
    \E re \in sess[s].opts.AllowedPaths : MatchString(re, URLPath(url))

\* C31: with AllowedPaths non-empty, the request start of a URL whose path
\* matches no allowed pattern ends the request and leaves the session record
\* (requestCount, urlsQueued, lastActivity, captureStore, parentURLs and the
\* rest) unchanged, and no flow or error of the session is for such a URL.
C31_AllowPathAbort ==
    /\ [](\A s \in sessions :
             sess[s].opts.AllowedPaths # {} =>
                 /\ \A i \in 1 .. Len(sess[s].flowsOrdered) :
                        PathMatchesAllowed(s, sess[s].flowsOrdered[i].URL)
                 /\ \A i \in 1 .. Len(sess[s].errors) :
                        PathMatchesAllowed(s, sess[s].errors[i].URL))
    /\ [][\A r \in reqs :
             (/\ r.st = "queued"
              /\ sess[r.sid].opts.AllowedPaths # {}
              /\ ~PathMatchesAllowed(r.sid, r.url))
                 => /\ \A q \in reqs' : q.id = r.id => q = r
                    /\ r \notin reqs' => sess'[r.sid] = sess[r.sid]]_vars

\* /a was fetched and stored under AllowedPaths {/a, /k}; its links /b and
\* /c were dispatched, left a parent entry, and their request starts were
\* aborted: only /a was counted and nothing is left in flight.
C31_Witness ==
    \E s \in sessions :
        /\ sess[s].opts.AllowedPaths = {"/a", "/k"}
        /\ sess[s].requestCount = 1
        /\ Len(sess[s].flowsOrdered) = 1
        /\ {UB, UC} \subseteq DOMAIN sess[s].parentURLs
        /\ {UB, UC} \subseteq sess[s].visited
        /\ {r \in reqs : r.sid = s} = {}

\* The seed flows of a seed list that carry header name k, by position.
SeedFlowsWith(seeds, k) ==
    {i \in 1 .. Len(seeds) :
        /\ seeds[i].FlowID # ""
        /\ \E j \in 1 .. Len(ProxyRequestHeaders(seeds[i].FlowID)) :
               ProxyRequestHeaders(seeds[i].FlowID)[j][1] = k}

\* The value header k has in the first seed flow of the list that carries it.
FirstSeedValue(seeds, k) ==
    LET i == CHOOSE i \in SeedFlowsWith(seeds, k) :
                 \A i2 \in SeedFlowsWith(seeds, k) : i <= i2
        lines == ProxyRequestHeaders(seeds[i].FlowID)
        j == CHOOSE j \in 1 .. Len(lines) : lines[j][1] = k
    IN lines[j][2]

\* C32: the SeedHeaders one seed resolution returns hold, for every header
\* name some seed flow carries other than Host and Content-Length, the value
\* of the first seed flow in seed order that carries it, and never hold Host
\* or Content-Length.  (Stated of the headers CreateSession stored.)
C32_FirstSeedFlowWins ==
    \A s \in sessions :
        LET seeds == sess[s].opts.Seeds
            H == sess[s].seedHeaders
        IN /\ "Host" \notin DOMAIN H
           /\ "Content-Length" \notin DOMAIN H
           /\ \A k \in {"Cookie", "Authorization"} :
                  SeedFlowsWith(seeds, k) # {}
                      => k \in DOMAIN H /\ H[k] = FirstSeedValue(seeds, k)

\* The flows a session holds.
FlowsOf(s) == {sess[s].flowsOrdered[i] : i \in 1 .. Len(sess[s].flowsOrdered)}

\* C33: the FoundOn of a flow whose request was enqueued as a seed is "seed",
\* or the URL of a page that links to it when a page discovered the URL; the
\* FoundOn of a flow whose request a link extraction enqueued is the URL of
\* the page that was being extracted (the request the flow's request
\* descends from).
C33_FoundOnIsDiscoverer ==
    \A s \in sessions : \A f \in FlowsOf(s) :
        /\ Len(f.ID) = 2 =>
               \/ f.FoundOn = "seed"
               \/ \E P \in URLs : /\ f.FoundOn = P
                                  /\ \E k \in 1 .. Len(PageLinks(P, "GET")) :
                                         PageLinks(P, "GET")[k] = f.URL
        /\ (Len(f.ID) > 2 /\ f.Method = "GET") =>
               \A g \in FlowsOf(s) :
                   g.ID = SubSeq(f.ID, 1, Len(f.ID) - 1) => f.FoundOn = g.URL

\* C34: for every flow f whose FoundOn is a URL P, if the session holds a flow
\* for P then some flow for P stands before f in flowsOrdered.
C34_ParentFlowPrecedes ==
    \A s \in sessions :
        LET F == sess[s].flowsOrdered
        IN \A i \in 1 .. Len(F) :
               (/\ F[i].FoundOn # "seed"
                /\ \E j \in 1 .. Len(F) : F[j].URL = F[i].FoundOn)
                   => \E j \in 1 .. i - 1 : F[j].URL = F[i].FoundOn

\* The disallowed patterns in force for session s: its DisallowedPaths, or
\* the configured defaults when it gave none.
DisallowedOf(s) ==
    IF sess[s].opts.DisallowedPaths = {} THEN config.DefaultDisallowedPaths
    ELSE sess[s].opts.DisallowedPaths

ActionDisallowed(s, action) ==
    \E p \in DisallowedOf(s) : MatchString(p, URLChars(action))

\* C35: the form callback always appends the form; it enqueues a POST to the
\* form's Action only when SubmitForms is on and the Action matches no
\* disallowed pattern, and enqueues nothing otherwise.  The request start of
\* a submission that is let through counts it (requestCount and urlsQueued
\* grow by one) and happens only below the MaxRequests limit.
C35_FormSubmission ==
    [][\A r \in reqs :
          /\ (r.st = "html" /\ r.links = <<>> /\ r.forms # <<>>
                /\ (r \notin reqs' \/ \E q \in reqs' : q.id = r.id /\ q.forms # r.forms))
                => LET s == r.sid
                       action == Head(r.forms)
                       posted == {q \in reqs' \ reqs : q.method = "POST"}
                   IN /\ Len(sess'[s].forms) = Len(sess[s].forms) + 1
                      /\ sess'[s].forms[Len(sess'[s].forms)].Action = action
                      /\ posted # {} => /\ sess[s].opts.SubmitForms
                                        /\ ~ActionDisallowed(s, action)
                                        /\ \A q \in posted : q.url = action /\ q.st = "queued"
          /\ (r.st = "queued" /\ r.method = "POST"
                /\ \E q \in reqs' : q.id = r.id /\ q.st = "started")
                => LET s == r.sid
                   IN /\ sess'[s].requestCount = sess[s].requestCount + 1
                      /\ sess'[s].urlsQueued = sess[s].urlsQueued + 1
                      /\ sess[s].opts.MaxRequests > 0
                            => sess'[s].requestCount <= sess[s].opts.MaxRequests]_vars

\* A session with SubmitForms on and DisallowedPaths {/l*t} has fetched /k
\* and recorded its form, whose Action /logout matches the pattern; the crawl
\* is over and /k was the only request.
C35_Witness ==
    \E s \in sessions :
        /\ sess[s].opts.SubmitForms
        /\ sess[s].opts.DisallowedPaths = {"/l*t"}
        /\ Len(sess[s].forms) = 1
        /\ sess[s].forms[1].Action = UL
        /\ sess[s].requestCount = 1
        /\ {r \in reqs : r.sid = s} = {}
        /\ worker[s].pc = "done"

\* Counted requests of session record S that are neither queued nor recorded
\* as a flow or an error.
Unaccounted(S) ==
    S.requestCount - (S.urlsQueued + Len(S.flowsOrdered) + Len(S.errors))

\* The requests of session s whose OnResponse ends in this step without a flow.
DroppedNow(s) ==
    {r \in reqs : /\ r.sid = s
                  /\ r.st = "responded"
                  /\ \A q \in reqs' : q.id = r.id => q.st # "responded"
                  /\ sess'[s].flowsOrdered = sess[s].flowsOrdered}

\* C36: requestCount >= urlsQueued + len(flowsOrdered) + len(errors) in every
\* state; the difference grows by one exactly in a step in which a counted
\* request's response ends without a flow and is otherwise unchanged, so it
\* is the number of such responses; requestCount never decreases.
C36_CountedRequestsConserved ==
    /\ [](\A s \in sessions : Unaccounted(sess[s]) >= 0)
    /\ [][\A s \in sessions :
             /\ Unaccounted(sess'[s]) = Unaccounted(sess[s]) + Cardinality(DroppedNow(s))
             /\ sess'[s].requestCount >= sess[s].requestCount]_vars

\* The crawl from /m is over with at least one flow, one error and two
\* responses that ended without a flow.
C36_Witness ==
    \E s \in sessions :
        /\ worker[s].pc = "done"
        /\ sess[s].urlsQueued = 0
        /\ Len(sess[s].flowsOrdered) >= 1
        /\ Len(sess[s].errors) >= 1
        /\ Unaccounted(sess[s]) = 2

\* C37: a session whose state is completed has urlsQueued = 0 and no request
\* dispatched, started or in flight.
C37_CompletedIsQuiescent ==
    \A s \in sessions :
        sess[s].State = crawlStateCompleted
            => /\ sess[s].urlsQueued = 0
               /\ {r \in reqs : r.sid = s} = {}

\* The registered sessions that are running.
RunningSessions == {s \in sessions : sess[s].State = crawlStateRunning}

\* A CreateSession call c runs its entry checks in this step.
EntersCreate(c) == cs[c].pc = "idle" /\ cs'[c].pc # "idle"

\* Sessions and label entries are never removed, and the session limit is
\* reported only when that many sessions are running.
RegistryOnlyGrows ==
    /\ sessions \subseteq sessions'
    /\ \A l \in DOMAIN byLabel : l \in DOMAIN byLabel' /\ byLabel'[l] \in sessions'
    /\ \A c \in SessionIDs :
           (EntersCreate(c) /\ cs'[c].err = "max concurrent sessions")
               => Cardinality(RunningSessions) >= MaxConcurrentSessions

\* C38 (as stated): a registered session stays in sessions and a label stays
\* in byLabel in every later state; every CreateSession that runs its checks
\* with a label byLabel holds fails with label-exists; stopped and completed
\* sessions do not count against MaxConcurrentSessions.
C38_LabelExistsAlways ==
    [][/\ RegistryOnlyGrows
       /\ \A c \in SessionIDs :
              (EntersCreate(c) /\ cs'[c].opts.Label \in DOMAIN byLabel)
                  => cs'[c].pc = "done" /\ cs'[c].err = "label exists"]_vars

\* C38 (amended): as above, but a CreateSession that runs its checks with a
\* label byLabel holds fails with the first error of the entry checks:
\* backend-closed on a closed backend, the session limit when
\* MaxConcurrentSessions sessions are running, and label-exists otherwise.
C38_LabelNeverReleased ==
    [][/\ RegistryOnlyGrows
       /\ \A c \in SessionIDs :
              (EntersCreate(c) /\ cs'[c].opts.Label \in DOMAIN byLabel)
                  => /\ cs'[c].pc = "done"
                     /\ cs'[c].err =
                          IF closed THEN "backend is closed"
                          ELSE IF Cardinality(RunningSessions) >= MaxConcurrentSessions
                          THEN "max concurrent sessions"
                          ELSE "label exists"]_vars

\* A CreateSession was refused with label-exists, the session that holds the
\* label is no longer running, and the backend is open.
C38_Witness ==
    \E c \in SessionIDs, s \in sessions :
        /\ cs[c].pc = "done"
        /\ cs[c].err = "label exists"
        /\ sess[s].opts.Label = cs[c].opts.Label
        /\ sess[s].State \in {crawlStateStopped, crawlStateCompleted}
        /\ ~closed

(***************************************************************************)
(* The Since="last" cursor under calls of every kind.                      *)
(***************************************************************************)
\* The flows of session s below the cursor that no Since="last" call has
\* returned: a later Since="last" call starts at the cursor and omits them.
OmittedByLast(s) ==
    {i \in 0 .. sess[s].lastReturnedIdx - 1 : i \notin lf[s].lastOnce}

\* The original indices from to upTo - 1, in commit order.
IndexRun(from, upTo) == [k \in 1 .. upTo - from |-> from + k - 1]

\* C39: a ListFlows call of any Since kind that returns a flow leaves the
\* Since="last" cursor past the highest flow it returned, and moves it when
\* that flow lay at or beyond it; while every call made on a session is
\* Since="last" without filter, Offset and Limit, each call returns exactly
\* the flows from the cursor to the last committed one in commit order, so
\* together the calls return every flow committed before the latest call
\* once and none twice.
C39_LastCallsListEveryFlowOnce ==
    /\ [](\A s \in sessions :
            /\ lf[s].resultMax + 1 <= sess[s].lastReturnedIdx
            /\ ~lf[s].other =>
                  /\ lf[s].lastOnce = 0 .. sess[s].lastReturnedIdx - 1
                  /\ lf[s].lastTwice = {}
                  /\ lf[s].obs.called => sess[s].lastReturnedIdx = lf[s].obs.n)
    /\ [][\A s \in sessions :
            lf'[s].obs # lf[s].obs =>
               LET res == lf'[s].obs.res
               IN /\ Len(res) > 0 =>
                        /\ sess'[s].lastReturnedIdx >= res[Len(res)] + 1
                        /\ res[Len(res)] >= sess[s].lastReturnedIdx =>
                              sess'[s].lastReturnedIdx > sess[s].lastReturnedIdx
                  /\ ~lf'[s].other =>
                        res = IndexRun(sess[s].lastReturnedIdx,
                                       Len(sess[s].flowsOrdered))]_vars

\* A call of another kind has moved the cursor past a flow that no
\* Since="last" call returned, after a Since="last" call on the session.
C39_Witness ==
    \E s \in sessions :
        /\ lf[s].other
        /\ lf[s].lastOnce # {}
        /\ OmittedByLast(s) # {}

(***************************************************************************)
(* AddSeeds and the domains of a session.                                  *)
(***************************************************************************)
\* The seed URL the AddSeeds call a is about to visit.
SeedAtVisit(a) == addSeeds[a].seedURLs[addSeeds[a].i]

\* Every request, flow and error of session s is for a URL in scope.
OnlyInScope(s) ==
    /\ \A r \in reqs : r.sid = s => InScope(s, r.url)
    /\ \A i \in 1 .. Len(sess[s].flowsOrdered) : InScope(s, sess[s].flowsOrdered[i].URL)
    /\ \A i \in 1 .. Len(sess[s].errors) : InScope(s, sess[s].errors[i].URL)

\* C40: AddSeeds never changes the domains a session was created with (its
\* allowed-domain set and the collector's AllowedDomains and URLFilters); a
\* call on a running session whose seeds resolve returns nil; the step of
\* the call for a seed URL whose host is out of scope leaves the URL marked
\* seen and issues no request; and no request, flow or error of a session
\* is ever for a URL out of scope.
C40_AddSeedsKeepsDomains ==
    /\ [](\A s \in sessions : OnlyInScope(s))
    /\ [][/\ \A s \in sessions :
                /\ sess'[s].allowedDomains = sess[s].allowedDomains
                /\ sess'[s].AllowedDomains = sess[s].AllowedDomains
                /\ sess'[s].URLFilters = sess[s].URLFilters
          /\ \A a \in AddSeedsCalls :
                /\ (addSeeds[a].pc = "idle" /\ addSeeds'[a].pc # "idle"
                        /\ addSeeds'[a].sid # 0
                        /\ sess[addSeeds'[a].sid].State = crawlStateRunning) =>
                      addSeeds'[a].err = NoErr
                /\ (addSeeds[a].pc \in {"merge", "visit"} /\ addSeeds'[a] # addSeeds[a]) =>
                      addSeeds'[a].err = NoErr
                /\ (addSeeds[a].pc = "visit" /\ addSeeds'[a] # addSeeds[a]
                        /\ ~InScope(addSeeds[a].sid, SeedAtVisit(a))) =>
                      /\ SeedAtVisit(a) \in sess'[addSeeds[a].sid].urlsSeen
                      /\ reqs' = reqs]_vars

\* An AddSeeds call with the seed https://h/a has returned nil on a session
\* for example.com: the URL, which no page links to, is marked seen, and the
\* session has completed with a flow and without a request, flow or error
\* for it.
C40_Witness ==
    \E s \in sessions :
        /\ addSeeds[1] = AddSeedsReturned(s)
        /\ UA \in sess[s].urlsSeen
        /\ ~InScope(s, UA)
        /\ sess[s].State = crawlStateCompleted
        /\ Len(sess[s].flowsOrdered) > 0
        /\ OnlyInScope(s)

====
